---------------------------- MODULE Spec2Model ----------------------------
(***************************************************************************)
(* DeepScraper: the crawl orchestrator of the deep-scrape route.           *)
(*                                                                         *)
(* One run of DeepScraper.deepScrape is modelled as a state machine whose  *)
(* states are the suspension points of the async code: at every state      *)
(* exactly one collaborator call (search, direct fetch, render, answer     *)
(* synthesis) is outstanding, or the run has returned.  An action is the   *)
(* arrival of a collaborator's response together with all the synchronous  *)
(* code that runs until the next call is issued.                           *)
(*                                                                         *)
(* Strings are sequences of one-character strings, so that substring       *)
(* search, tokenisation and truncation are computed, not assumed.          *)
(***************************************************************************)
EXTENDS Integers, Sequences, FiniteSets, TLC

(***************************************************************************)
(* Bounds of the model.                                                    *)
(***************************************************************************)
\* longest `items` array the search collaborator answers with
MaxItems == 2
\* most collaborator failures (direct fetch / render) injected in one run
MaxFaults == 1
\* link discovery: most anchors of any kind at the head of a page
MaxPrefix == 2
\* link discovery: most further links to pages of the site that follow them
MaxFill == 6
\* analyzer: most words of a query
MaxTokens == 10
\* analyzer: by how many characters the longest page text exceeds the cap
\* of the snippet, less one
MaxPad == 3
\* the most elements on a page handed to the embedded-state inspection
MaxProbeEls == 3
\* termination: longest `items` array of the search answers, the two long
\* ones apart
MaxLiveItems == 1

(***************************************************************************)
(* Program constants.                                                      *)
(***************************************************************************)
MAX_SEARCH_RESULTS == 8
MAX_CRAWL_DEPTH == 2
\* `if (internalLinks.length >= 6) break`
MAX_INTERNAL_LINKS == 6
\* analyzeHtmlForQuery: fullText.substring(0, 1500)
SNIPPET_CAP == 1500
\* score = matches / (queryWords.length + 0.0001), kept exact as a fraction
\* with numerator and denominator scaled by 10000
SCALE == 10000

NULL == [null |-> TRUE]

(***************************************************************************)
(* Text helpers.                                                           *)
(***************************************************************************)
WordChars ==
    {"a","b","c","d","e","f","g","h","i","j","k","l","m","n","o","p","q","r",
     "s","t","u","v","w","x","y","z","A","0","1","2","3","4","5","6","7","8",
     "9","_"}

Digits == {"0","1","2","3","4","5","6","7","8","9"}

\* String.prototype.toLowerCase on the alphabet of the model
toLowerChar(c) == IF c = "A" THEN "a" ELSE c

toLowerCase(s) == [i \in 1..Len(s) |-> toLowerChar(s[i])]

\* String.prototype.includes
includes(text, word) ==
    \E i \in 0..(Len(text) - Len(word)) :
        SubSeq(text, i + 1, i + Len(word)) = word

\* String.prototype.substring(0, n)
substring0(s, n) == IF Len(s) > n THEN SubSeq(s, 1, n) ELSE s

RECURSIVE matchWords(_, _, _, _)
\* s.match(/\b\w{2,}\b/g) || [] : the maximal runs of word characters that
\* are at least two characters long, in order
matchWords(s, i, cur, acc) ==
    IF i > Len(s)
    THEN IF Len(cur) >= 2 THEN Append(acc, cur) ELSE acc
    ELSE IF s[i] \in WordChars
         THEN matchWords(s, i + 1, Append(cur, s[i]), acc)
         ELSE matchWords(s, i + 1, <<>>,
                         IF Len(cur) >= 2 THEN Append(acc, cur) ELSE acc)

RECURSIVE splitSpace(_, _, _, _)
\* s.split(' ') : the pieces between single spaces, empty pieces included
splitSpace(s, i, cur, acc) ==
    IF i > Len(s)
    THEN Append(acc, cur)
    ELSE IF s[i] = " "
         THEN splitSpace(s, i + 1, <<>>, Append(acc, cur))
         ELSE splitSpace(s, i + 1, Append(cur, s[i]), acc)

RECURSIVE countIf(_, _)
\* queryWords.filter(word => text.includes(word)).length
countIf(words, text) ==
    IF words = <<>> THEN 0
    ELSE (IF includes(text, Head(words)) THEN 1 ELSE 0)
         + countIf(Tail(words), text)

\* s.replace(/\s+/g, ' ') : every run of white space becomes one space (of a
\* run, the first character stays)
collapseSpace(s) ==
    LET tagged == [i \in 1..Len(s) |->
                      [c |-> s[i], first |-> (i = 1 \/ s[i - 1] # " ")]]
        stays(e) == e.c # " " \/ e.first
        kept == SelectSeq(tagged, stays)
    IN  [i \in 1..Len(kept) |-> kept[i].c]

\* String.prototype.trim: the string without its leading and trailing
\* white space
trim(s) ==
    IF \A i \in 1..Len(s) : s[i] = " " THEN <<>>
    ELSE LET first == CHOOSE i \in 1..Len(s) :
                          s[i] # " " /\ \A j \in 1..(i - 1) : s[j] = " "
             back == CHOOSE k \in 0..(Len(s) - 1) :
                          s[Len(s) - k] # " "
                          /\ \A j \in (Len(s) - k + 1)..Len(s) : s[j] = " "
         IN  SubSeq(s, first, Len(s) - back)

\* text.replace(/\s+/g, ' ').trim()
normalizeSpace(s) == trim(collapseSpace(s))

\* cleanText(text, maxLen)
cleanText(text, maxLen) ==
    LET cleaned == normalizeSpace(text)
    IN  IF Len(cleaned) > maxLen
        THEN SubSeq(cleaned, 1, maxLen) \o <<".", ".", ".">>
        ELSE cleaned

(***************************************************************************)
(* URLs, hrefs and markup.                                                 *)
(*                                                                         *)
(* A URL is [host, path].  An href of an anchor tag is one of              *)
(*   [k |-> "rel", path]  a '/'-prefixed href that resolves against base   *)
(*   [k |-> "netrel", url] a '//'-prefixed href: it resolves to url, on    *)
(*                        the host the href names                          *)
(*   [k |-> "abs", url]   an href that starts with http and parses         *)
(*   [k |-> "badrel"]     '/'-prefixed, new URL(href, base) throws ("//")  *)
(*   [k |-> "badabs"]     starts with http, new URL(href) throws           *)
(*   [k |-> "other"]      mailto:, javascript:, #fragment, relative path   *)
(*                        (with url, what a browser resolves it to)        *)
(* Markup is [els |-> sequence of elements]; the empty string is the       *)
(* markup with no element.  An element is one of                           *)
(*   [t |-> "text", s]          character data                             *)
(*   [t |-> "a", href]          an anchor tag                              *)
(*   [t |-> "ld", json]         a script of type application/ld+json;      *)
(*                              json is JSON.stringify(JSON.parse(body)),  *)
(*                              or NULL when JSON.parse throws             *)
(*   [t |-> "attr", name, v]    a tag with one data attribute              *)
(*   [t |-> "script", var, json] an inline script; var is the state        *)
(*                              variable it assigns ("" when none), json   *)
(*                              as for "ld"                                *)
(***************************************************************************)
Url(h, p) == [host |-> h, path |-> p]

hostname(u) == u.host

EMPTY_HTML == [els |-> <<>>]

\* truthiness of a value that is null or a string of markup
truthy(html) == html # NULL /\ html # EMPTY_HTML

RECURSIVE visibleText(_, _)
\* html with script/style/noscript elements removed and every remaining
\* tag replaced by a space
visibleText(els, acc) ==
    IF els = <<>> THEN acc
    ELSE LET e == Head(els)
         IN  IF e.t = "text"
             THEN visibleText(Tail(els), acc \o e.s)
             ELSE IF e.t \in {"ld", "script"}
                  THEN visibleText(Tail(els), acc)
                  ELSE visibleText(Tail(els), Append(acc, " "))

Score(n, d) == [num |-> n, den |-> d]

\* a < b on fractions with positive denominators
ScoreLess(a, b) == a.num * b.den < b.num * a.den

\* the relevance floor 0.1
THRESHOLD == Score(1, 10)

\* analyzeHtmlForQuery with score = matches / queryWords.length
analyzeHtmlForQuery_noEpsilon(html, url, query) ==
    LET fullText == normalizeSpace(visibleText(html.els, <<>>))
        queryWords == matchWords(toLowerCase(query), 1, <<>>, <<>>)
        matches == countIf(queryWords, toLowerCase(fullText))
        score == Score(matches, Len(queryWords))
    IN  IF Len(queryWords) = 0
        THEN [snippet |-> substring0(fullText, SNIPPET_CAP), score |-> Score(1, 1)]
        ELSE IF ScoreLess(score, THRESHOLD)
             THEN NULL
             ELSE [snippet |-> fullText, score |-> score]

\* analyzeHtmlForQuery without `.substring(0, 1500)`
analyzeHtmlForQuery_noSubstring(html, url, query) ==
    LET fullText == normalizeSpace(visibleText(html.els, <<>>))
        queryWords == matchWords(toLowerCase(query), 1, <<>>, <<>>)
        matches == countIf(queryWords, toLowerCase(fullText))
        score == Score(matches * SCALE, Len(queryWords) * SCALE + 1)
    IN  IF Len(queryWords) = 0
        THEN [snippet |-> fullText, score |-> Score(1, 1)]
        ELSE IF ScoreLess(score, THRESHOLD)
             THEN NULL
             ELSE [snippet |-> fullText, score |-> score]

\* analyzeHtmlForQuery(html, url, query): [snippet, score] or NULL
analyzeHtmlForQuery(html, url, query) ==
    LET fullText == normalizeSpace(visibleText(html.els, <<>>))
        queryWords == matchWords(toLowerCase(query), 1, <<>>, <<>>)
        matches == countIf(queryWords, toLowerCase(fullText))
        score == Score(matches * SCALE, Len(queryWords) * SCALE + 1)
    IN  IF Len(queryWords) = 0
        THEN [snippet |-> substring0(fullText, SNIPPET_CAP), score |-> Score(1, 1)]
        ELSE IF ScoreLess(score, THRESHOLD)
             THEN NULL
             ELSE [snippet |-> fullText, score |-> score]


(***************************************************************************)
(* Embedded-state inspection: the three probes of extractFromJsRuntime,    *)
(* applied to the markup the rendered fetch returned.                      *)
(***************************************************************************)
DataAttrNames == {"data-price", "data-value", "data-last", "data-current"}

\* query.toLowerCase().split(' ').some(word => text.toLowerCase().includes(word))
someWordIn(query, text) ==
    LET words == splitSpace(toLowerCase(query), 1, <<>>, <<>>)
    IN  \E i \in 1..Len(words) : includes(toLowerCase(text), words[i])

\* /\$?\d/.test(value)
hasDigit(v) == \E i \in 1..Len(v) : v[i] \in Digits

\* extractJsonLd(html): the ld+json blocks that parse, in document order
extractJsonLd(html) ==
    LET isLd(e) == e.t = "ld" /\ e.json # NULL
        blocks == SelectSeq(html.els, isLd)
    IN  [i \in 1..Len(blocks) |-> blocks[i].json]

\* the probes of extractFromJsRuntime on fetched markup:
\* [res |-> [snippet, score] or NULL, k |-> the kind of trace step pushed]
runtimeProbes(html, query) ==
    LET ldHit(j) == someWordIn(query, j)
        lds == SelectSeq(extractJsonLd(html), ldHit)
        isAttr(e) == /\ e.t = "attr"
                     /\ e.name \in DataAttrNames
                     /\ e.v # <<>>
                     /\ (someWordIn(query, e.v) \/ hasDigit(e.v))
        attrs == SelectSeq(html.els, isAttr)
        isVar(e) == /\ e.t = "script"
                    /\ e.var # ""
                    /\ e.json # NULL
                    /\ someWordIn(query, e.json)
        vars == SelectSeq(html.els, isVar)
    IN  IF lds # <<>>
        THEN [res |-> [snippet |-> cleanText(lds[1], 1200), score |-> Score(9, 10)],
              k |-> "ldHit"]
        ELSE IF attrs # <<>>
        THEN [res |-> [snippet |-> cleanText(attrs[1].v, 400), score |-> Score(85, 100)],
              k |-> "attrHit"]
        ELSE IF vars # <<>>
        THEN [res |-> [snippet |-> cleanText(vars[1].json, 1200), score |-> Score(95, 100)],
              k |-> "varHit"]
        ELSE [res |-> NULL, k |-> ""]

(***************************************************************************)
(* Link discovery: the scan of crawlInternalLinks.                         *)
(***************************************************************************)
RECURSIVE scanAnchors_noCap(_, _, _, _, _)
\* scanAnchors without `if (internalLinks.length >= 6) break`
scanAnchors_noCap(els, i, baseUrl, visitedSet, acc) ==
    IF i > Len(els) THEN [err |-> FALSE, links |-> acc]
    ELSE LET e == els[i]
             skip == scanAnchors_noCap(els, i + 1, baseUrl, visitedSet, acc)
             keep(fullUrl) ==
                 IF hostname(fullUrl) = hostname(baseUrl) /\ fullUrl \notin visitedSet
                 THEN scanAnchors_noCap(els, i + 1, baseUrl, visitedSet,
                                        Append(acc, fullUrl))
                 ELSE skip
         IN  IF e.t # "a" THEN skip
             ELSE IF e.href.k = "rel" THEN keep(Url(baseUrl.host, e.href.path))
             ELSE IF e.href.k = "netrel" THEN keep(e.href.url)
             ELSE IF e.href.k = "badrel" THEN [err |-> TRUE, links |-> acc]
             ELSE IF e.href.k = "abs" THEN keep(e.href.url)
             ELSE skip

RECURSIVE scanAnchors(_, _, _, _, _)
\* the for loop over linkMatches: [err, links]; err when new URL(href,
\* baseUrl) throws, which leaves the loop for the catch of the crawl
scanAnchors(els, i, baseUrl, visitedSet, acc) ==
    IF i > Len(els) THEN [err |-> FALSE, links |-> acc]
    ELSE LET e == els[i]
             skip == scanAnchors(els, i + 1, baseUrl, visitedSet, acc)
             keep(fullUrl) ==
                 IF hostname(fullUrl) = hostname(baseUrl) /\ fullUrl \notin visitedSet
                 THEN IF Len(acc) + 1 >= MAX_INTERNAL_LINKS
                      THEN [err |-> FALSE, links |-> Append(acc, fullUrl)]
                      ELSE scanAnchors(els, i + 1, baseUrl, visitedSet,
                                       Append(acc, fullUrl))
                 ELSE skip
         IN  IF e.t # "a" THEN skip
             ELSE IF e.href.k = "rel" THEN keep(Url(baseUrl.host, e.href.path))
             ELSE IF e.href.k = "netrel" THEN keep(e.href.url)
             ELSE IF e.href.k = "badrel" THEN [err |-> TRUE, links |-> acc]
             ELSE IF e.href.k = "abs" THEN keep(e.href.url)
             ELSE skip


(***************************************************************************)
(* The world the collaborators answer from.                                *)
(***************************************************************************)
\* "Aapl up": two query words
Q_STOCK == <<"A", "a", "p", "l", " ", "u", "p">>
\* "?": no query word of two characters
Q_PUNCT == <<"?">>

Queries == {Q_STOCK, Q_PUNCT}

T_HIT == <<"a", "a", "p", "l", " ", "1", "9", "0">>
T_MISS == <<"n", "e", "w", "s">>
T_LOAD == <<"l", "o", "a", "d">>
J_HIT == <<"{", "a", "a", "p", "l", "}">>
J_MISS == <<"{", "x", "}">>
V_NUM == <<"1", "9", "0">>

UA == Url("a", "/")
UQ == Url("a", "/q")
UE == Url("a", "/e")
UP == Url("a", "/p")
UB == Url("b", "/")
UX == Url("b", "/x")
UD == Url("c", "/")
UY == Url("c", "/y")

\* a site with more links on its front page than a crawl follows
UF == Url("f", "/")

\* the front page of the i-th of the sites that have nothing on the stock
Leaf(i) == Url("leaf" \o ToString(i), "/")

URLs == {UA, UQ, UE, UP, UB, UX, UD, UY}

\* the URLs the search collaborator ranks
CandidateURLs == {UA, UQ, UP, UB, UD, UY}

\* a link that is no string: an object without a string conversion (its
\* toString is not callable), as JSON can carry one
UW == [unprintable |-> TRUE]

\* the values of `item.link` in the search collaborator's answers
Links == CandidateURLs \cup {UW}

\* more items than the orchestrator takes: a dead page as often as it takes
\* items, then a page that has the answer
LongItems ==
    [i \in 1..(MAX_SEARCH_RESULTS + 1) |->
        IF i <= MAX_SEARCH_RESULTS THEN UY ELSE UP]

\* more items than the orchestrator takes, all different: the site with
\* many links, sites without the answer, then a page that has the answer
WideItems ==
    <<UF>> \o [i \in 1..(MAX_SEARCH_RESULTS - 1) |-> Leaf(i)] \o <<UP>>

Text(s) == [t |-> "text", s |-> s]
A(h) == [t |-> "a", href |-> h]
Rel(p) == A([k |-> "rel", path |-> p])
Abs(u) == A([k |-> "abs", url |-> u])

\* a hub page: nothing relevant on it, links to pages of its own host, to
\* itself, to another host, a mailto: link and a repeated link
HubHtml ==
    [els |-> << Text(T_MISS), Rel("/q"), Abs(UA), Abs(UB), A([k |-> "other"]),
                Rel("/e"), Rel("/q"), Rel("/p") >>]

\* n links to n further pages of the site
Fill(n) == [i \in 1..n |-> Rel("/" \o ToString(i))]

\* a front page with one link more than a crawl follows, each to a further
\* page of the site
ManyLinksHtml ==
    [els |-> <<Text(T_MISS)>> \o Fill(MAX_INTERNAL_LINKS + 1)]

\* what the direct fetch (static) and the rendered fetch (rendered) of a
\* URL return when they succeed
Web(u) ==
    CASE u = UA -> [static |-> HubHtml, rendered |-> HubHtml]
      [] u = UQ -> [static |-> [els |-> <<Text(T_LOAD)>>],
                    rendered |-> [els |-> <<Text(T_HIT)>>]]
      [] u = UE -> [static |-> [els |-> <<Text(T_MISS), Rel("/m")>>],
                    rendered |-> [els |-> << Text(T_MISS),
                                             Rel("/m"),
                                             [t |-> "ld", json |-> NULL],
                                             [t |-> "ld", json |-> J_MISS],
                                             [t |-> "ld", json |-> J_HIT] >>]]
      [] u = UP -> [static |-> [els |-> <<Text(T_HIT)>>],
                    rendered |-> [els |-> << Text(T_HIT),
                                             [t |-> "attr", name |-> "data-price",
                                              v |-> V_NUM] >>]]
      [] u = UB -> [static |-> EMPTY_HTML,
                    rendered |-> [els |-> << Text(T_MISS),
                                             [t |-> "attr", name |-> "data-id",
                                              v |-> V_NUM],
                                             Rel("/x"),
                                             A([k |-> "badabs"]),
                                             A([k |-> "badrel"]) >>]]
      [] u = UX -> [static |-> [els |-> <<Text(T_MISS)>>],
                    rendered |-> [els |-> << Text(T_MISS),
                                             [t |-> "attr", name |-> "data-price",
                                              v |-> <<>>],
                                             [t |-> "script", var |-> "",
                                              json |-> J_HIT],
                                             [t |-> "script", var |-> "window.x",
                                              json |-> J_HIT] >>]]
      [] u = UF -> [static |-> ManyLinksHtml, rendered |-> ManyLinksHtml]
      [] u = UD -> [static |-> [els |-> <<Text(T_MISS), Rel("/y")>>],
                    rendered |-> [els |-> <<Text(T_MISS), Rel("/y")>>]]
      [] OTHER  -> [static |-> [els |-> <<Text(T_MISS)>>],
                    rendered |-> [els |-> << Text(T_MISS),
                                             [t |-> "script",
                                              var |-> "__NEXT_DATA__",
                                              json |-> J_MISS] >>]]

\* the answers of the direct fetch of u: a 2xx response with its body, a
\* timeout (abort), a network error, a non-2xx response
DirectOutcomes(u) ==
    {[k |-> "ok", html |-> Web(u).static],
     [k |-> "timeout", html |-> NULL],
     [k |-> "network", html |-> NULL],
     [k |-> "status", html |-> NULL]}

\* the answers of the render collaborator for u: a success response with the
\* rendered markup, a non-success response, a thrown transport error
RenderOutcomes(u) ==
    {[k |-> "ok", html |-> Web(u).rendered],
     [k |-> "status", html |-> NULL],
     [k |-> "network", html |-> NULL]}

ANSWER == [text |-> <<"1", "9", "0">>]

\* the answers of the synthesizer: an answer, an empty answer, a response
\* without choices, a non-success response, a thrown transport error
AIOutcomes ==
    {[k |-> "ok", answer |-> ANSWER],
     [k |-> "empty", answer |-> NULL],
     [k |-> "nochoices", answer |-> NULL],
     [k |-> "status", answer |-> NULL],
     [k |-> "network", answer |-> NULL]}

RECURSIVE SeqsUpTo(_, _)
\* the sequences over S of length at most n
SeqsUpTo(S, n) ==
    IF n = 0 THEN {<<>>}
    ELSE LET shorter == SeqsUpTo(S, n - 1)
         IN  shorter \cup {Append(q, x) : q \in shorter, x \in S}

\* the answers of the search collaborator: a success response with its
\* items (the link of each), one without an items field, a non-success
\* response, a thrown error
SearchOutcomes ==
    {[k |-> "ok", items |-> q] : q \in SeqsUpTo(Links, MaxItems)}
    \cup {[k |-> "ok", items |-> LongItems],
          [k |-> "noitems", items |-> <<>>],
          [k |-> "status", items |-> <<>>],
          [k |-> "network", items |-> <<>>]}


(***************************************************************************)
(* The requests the entry point receives.  A body is what the request      *)
(* carries:                                                                *)
(*   [k |-> "unparsable"]        no JSON (an empty body): json() rejects   *)
(*   [k |-> "null"]              the JSON value null                       *)
(*   [k |-> "scalar"]            a JSON string, number or boolean          *)
(*   [k |-> "object", query]     a JSON object; query is the value of its  *)
(*                               query property                            *)
(* and a value is [t |-> its typeof, ...]; null is NULL.                   *)
(***************************************************************************)
UNDEFINED == [t |-> "undefined"]
Num(n) == [t |-> "number", n |-> n]
Str(chars) == [t |-> "string", s |-> chars]

\* typeof v
typeOf(v) == IF v = NULL THEN "object" ELSE v.t

\* !v
falsy(v) ==
    \/ v = UNDEFINED
    \/ v = NULL
    \/ v = Num(0)
    \/ v = Str(<<>>)

\* "  Aapl up " and "?"
QueryValues ==
    {UNDEFINED, NULL, Num(0), Num(5), [t |-> "object"], Str(<<>>),
     Str(<<" ", " ">>), Str(<<" ", " ">> \o Q_STOCK \o <<" ">>), Str(Q_PUNCT)}

Requests ==
    {[k |-> "unparsable"], [k |-> "null"], [k |-> "scalar"]}
    \cup {[k |-> "object", query |-> v] : v \in QueryValues}

(***************************************************************************)
(* The state of one run.                                                   *)
(***************************************************************************)
VARIABLES
    request,         \* POST: the body of the request
    response,        \* POST: the response returned, NULL before it returns
    pc,              \* the await the run is suspended at, or "start"/"done"
    query,           \* deepScrape's query argument
    visited,         \* this.visited
    steps,           \* debug.steps
    search_results,  \* debug.search_results
    searchResults,   \* deepScrape: const searchResults
    idx,             \* deepScrape: position of the for loop in searchResults
    fastHtml,        \* deepScrape: const fastHtml of the iteration
    scrapedHtml,     \* deepScrape: const scrapedHtml of the iteration
    internalLinks,   \* crawlInternalLinks: const internalLinks
    linkIdx,         \* crawlInternalLinks: position of the second for loop
    accepted,        \* the analysis the run returns once the answer arrives
    result,          \* the value deepScrape returned, NULL before it returns
    calls,           \* log: the collaborator calls issued, in order
    trials,          \* log: the URLs marked visited and put on trial, in order
    faults,          \* number of failed direct/render calls so far
    runs,            \* the invocations that overlap, when there are two
    heap             \* the objects the overlapping invocations created

vars == << request, response, pc, query, visited, steps, search_results, searchResults, idx,
           fastHtml, scrapedHtml, internalLinks, linkIdx, accepted, result,
           calls, trials, faults, runs, heap >>

\* the state as one record, for the operators that run the synchronous
\* code between two awaits
Cur ==
    [request |-> request, response |-> response, pc |-> pc, query |-> query, visited |-> visited, steps |-> steps,
     search_results |-> search_results, searchResults |-> searchResults,
     idx |-> idx, fastHtml |-> fastHtml, scrapedHtml |-> scrapedHtml,
     internalLinks |-> internalLinks, linkIdx |-> linkIdx,
     accepted |-> accepted, result |-> result, calls |-> calls,
     trials |-> trials, faults |-> faults]

Becomes(s) ==
    /\ request' = s.request
    /\ response' = s.response
    /\ pc' = s.pc
    /\ query' = s.query
    /\ visited' = s.visited
    /\ steps' = s.steps
    /\ search_results' = s.search_results
    /\ searchResults' = s.searchResults
    /\ idx' = s.idx
    /\ fastHtml' = s.fastHtml
    /\ scrapedHtml' = s.scrapedHtml
    /\ internalLinks' = s.internalLinks
    /\ linkIdx' = s.linkIdx
    /\ accepted' = s.accepted
    /\ result' = s.result
    /\ calls' = s.calls
    /\ trials' = s.trials
    /\ faults' = s.faults
    /\ UNCHANGED << runs, heap >>

\* one entry of debug.steps: the kind of message, the URL in it (or NULL),
\* the status or error text in it, the count in it
Step(k, u, d, n) == [k |-> k, u |-> u, d |-> d, n |-> n]

\* push that writes over the last step of the trace
push_overwrite(s, k, u, d, n) ==
    [s EXCEPT !.steps = IF @ = <<>> THEN <<Step(k, u, d, n)>>
                        ELSE [@ EXCEPT ![Len(@)] = Step(k, u, d, n)]]

\* debug.steps.push(...)
push(s, k, u, d, n) == [s EXCEPT !.steps = Append(@, Step(k, u, d, n))]

\* a collaborator call is issued: svc is the collaborator, by the strategy
\* that calls it, ctx the snippet handed to the synthesizer.  The log entry
\* is completed when the answer arrives: out is the kind of answer, items
\* the links of the items in the search collaborator's answer, seen
\* what the calling strategy finds in it ("none": no markup, "empty": the
\* empty string, "rejected"/"accepted": markup and what the analyzer or the
\* probes say of it), verdict the analysis they return
issue(s, svc, u, by, ctx, at) ==
    [s EXCEPT !.calls = Append(@, [svc |-> svc, url |-> u, by |-> by,
                                   ctx |-> ctx, out |-> "pending",
                                   items |-> <<>>,
                                   seen |-> "pending", verdict |-> NULL]),
              !.pc = at]

\* the outstanding search or synthesizer call is answered
answered(s, out) ==
    [s EXCEPT !.calls[Len(s.calls)].out = out.k,
              !.calls[Len(s.calls)].items =
                  IF "items" \in DOMAIN out THEN out.items ELSE <<>>,
              !.calls[Len(s.calls)].seen = "n/a"]

\* the outstanding direct/render call is answered with out, in which the
\* analyzer (or, for the embedded-state inspection, the probes) finds
\* verdict; a failure counts against the bound
counted(s, out, by) ==
    LET verdict == IF ~truthy(out.html) THEN NULL
                   ELSE IF by = "runtime" THEN runtimeProbes(out.html, s.query).res
                   ELSE analyzeHtmlForQuery(out.html, NULL, s.query)
        seen == IF out.html = NULL THEN "none"
                ELSE IF out.html = EMPTY_HTML THEN "empty"
                ELSE IF verdict = NULL THEN "rejected" ELSE "accepted"
    IN  [s EXCEPT !.calls[Len(s.calls)].out = out.k,
                  !.calls[Len(s.calls)].seen = seen,
                  !.calls[Len(s.calls)].verdict = verdict,
                  !.faults = IF out.k = "ok" THEN @ ELSE @ + 1]

(***************************************************************************)
(* The strategies, each split at its await.                                *)
(***************************************************************************)
\* fetchHtmlRequestsCall that issues the rendered fetch along with the
\* direct fetch
fetchHtmlRequestsCall_withRender(s, url, at) ==
    issue(issue(push(s, "fetching", url, "", 0),
                "render", url, "scrape", NULL, at),
          "direct", url, "fast", NULL, at)

\* fetchHtmlRequests up to `await fetch(url, ...)`
fetchHtmlRequestsCall(s, url, at) ==
    issue(push(s, "fetching", url, "", 0), "direct", url, "fast", NULL, at)

\* fetchHtmlRequests from the response on: the state and the value returned
fetchHtmlRequestsReturn(s, url, out) ==
    IF out.k = "ok"
    THEN [st |-> push(s, "fetched", url, "", 0), val |-> out.html]
    ELSE IF out.k = "status"
         THEN [st |-> s, val |-> NULL]
         ELSE [st |-> push(s, "fetchFailed", url, out.k, 0), val |-> NULL]

\* fetchHtmlWithScraper up to `await fetch('/integrations/web-scraping/post')`
fetchHtmlWithScraperCall(s, url, by, at) ==
    issue(push(s, "scraping", url, "", 0), "render", url, by, NULL, at)

\* fetchHtmlWithScraper from the response on
fetchHtmlWithScraperReturn(s, url, out) ==
    IF out.k = "ok"
    THEN [st |-> push(s, "scraped", url, "", 0), val |-> out.html]
    ELSE IF out.k = "status"
         THEN [st |-> push(s, "scrapeFailed", url, "status", 0), val |-> NULL]
         ELSE [st |-> push(s, "scrapeError", url, out.k, 0), val |-> NULL]

\* extractFromJsRuntime up to the await inside fetchHtmlWithScraper
extractFromJsRuntimeCall(s, url, at) ==
    fetchHtmlWithScraperCall(push(s, "inspecting", url, "", 0), url, "runtime", at)

\* extractFromJsRuntime from the response on
extractFromJsRuntimeReturn(s, url, out) ==
    LET r == fetchHtmlWithScraperReturn(s, url, out)
        p == runtimeProbes(r.val, s.query)
    IN  IF ~truthy(r.val) THEN [st |-> r.st, val |-> NULL]
        ELSE IF p.res = NULL THEN [st |-> r.st, val |-> NULL]
        ELSE [st |-> push(r.st, p.k, url, "", 0), val |-> p.res]

\* generateAIAnswer up to `await fetch('/integrations/anthropic-...')`
generateAIAnswerCall(s, context) ==
    issue(push(s, "aiStart", NULL, "", 0), "ai", NULL, "ai",
          [text |-> context], "ai")

\* generateAIAnswer from the response on
generateAIAnswerReturn(s, out) ==
    IF out.k = "ok"
    THEN [st |-> push(s, "aiDone", NULL, "", 0), val |-> out.answer]
    ELSE IF out.k = "empty"
         THEN [st |-> push(s, "aiEmpty", NULL, "", 0), val |-> NULL]
         ELSE [st |-> push(s, "aiFailed", NULL, out.k, 0), val |-> NULL]


(***************************************************************************)
(* deepScrape and crawlInternalLinks, each split at its awaits.            *)
(***************************************************************************)
\* the object deepScrape returns when nothing was found, but for its debug
\* property; it has no answer property
NotFound ==
    [found |-> FALSE, snippet |-> <<>>, score |-> Score(0, 1), source |-> NULL]

\* beginTrial that leaves the URL out of this.visited
beginTrial_notMarked(s, i, url) ==
    LET s1 == [s EXCEPT !.trials = Append(@, url),
                        !.idx = i,
                        !.fastHtml = NULL,
                        !.scrapedHtml = NULL]
    IN  IF url = UW
        THEN [s1 EXCEPT !.pc = "thrown"]
        ELSE fetchHtmlRequestsCall(push(s1, "processing", url, "", 0),
                                   url, "fast")

\* the head of an iteration of `for (const url of searchResults)` for a url
\* that was not visited: up to the first await, or to the exception that
\* the template literal of the 'Processing' step raises for a url without
\* string conversion, which no handler of deepScrape catches
beginTrial(s, i, url) ==
    LET s1 == [s EXCEPT !.visited = @ \cup {url},
                        !.trials = Append(@, url),
                        !.idx = i,
                        !.fastHtml = NULL,
                        !.scrapedHtml = NULL]
    IN  IF url = UW
        THEN [s1 EXCEPT !.pc = "thrown"]
        ELSE fetchHtmlRequestsCall(push(s1, "processing", url, "", 0),
                                   url, "fast")

\* accept with generateAIAnswer's arguments swapped: the query is handed
\* over as the context
accept_queryAsContext(s, analysis, source) ==
    generateAIAnswerCall(
        [s EXCEPT !.accepted = [snippet |-> analysis.snippet,
                                score |-> analysis.score,
                                source |-> source]],
        s.query)

\* an acceptance: `const aiAnswer = await this.generateAIAnswer(...)` is
\* issued with the accepted snippet; the analysis waits for the answer
accept(s, analysis, source) ==
    generateAIAnswerCall(
        [s EXCEPT !.accepted = [snippet |-> analysis.snippet,
                                score |-> analysis.score,
                                source |-> source]],
        analysis.snippet)

\* nextCandidate without `if (this.visited.has(url)) continue`
nextCandidate_noVisitedCheck(s, i) ==
    IF i > Len(s.searchResults)
    THEN [push(s, "notFound", NULL, "", 0)
             EXCEPT !.result = NotFound, !.pc = "done", !.idx = i,
                    !.fastHtml = NULL, !.scrapedHtml = NULL]
    ELSE LET url == s.searchResults[i]
         IN  beginTrial(s, i, url)

RECURSIVE nextCandidate_silentEnd(_, _)
\* nextCandidate without the push of 'No relevant content found in any
\* source' after the loop
nextCandidate_silentEnd(s, i) ==
    IF i > Len(s.searchResults)
    THEN [s EXCEPT !.result = NotFound, !.pc = "done", !.idx = i,
                   !.fastHtml = NULL, !.scrapedHtml = NULL]
    ELSE LET url == s.searchResults[i]
         IN  IF url \in s.visited
             THEN nextCandidate_silentEnd(s, i + 1)
             ELSE beginTrial(s, i, url)

RECURSIVE nextCandidate(_, _)
\* the head of `for (const url of searchResults)` from position i on, up to
\* the first await of the iteration, or the return after the loop
nextCandidate(s, i) ==
    IF i > Len(s.searchResults)
    THEN [push(s, "notFound", NULL, "", 0)
             EXCEPT !.result = NotFound, !.pc = "done", !.idx = i,
                    !.fastHtml = NULL, !.scrapedHtml = NULL]
    ELSE LET url == s.searchResults[i]
         IN  IF url \in s.visited
             THEN nextCandidate(s, i + 1)
             ELSE beginTrial(s, i, url)

\* a crawl without result ends the run instead of the iteration
crawlReturnsNull_endsRun(s) ==
    [push(s, "notFound", NULL, "", 0)
        EXCEPT !.result = NotFound, !.pc = "done",
               !.internalLinks = <<>>, !.linkIdx = 0,
               !.fastHtml = NULL, !.scrapedHtml = NULL]

\* crawlInternalLinks returned null to deepScrape: the iteration ends
crawlReturnsNull(s) ==
    nextCandidate([s EXCEPT !.internalLinks = <<>>, !.linkIdx = 0], s.idx + 1)

\* crawlReturns that attributes the result to the page the link was found on
crawlReturns_outerSource(s, analysis, source) ==
    accept(push([s EXCEPT !.internalLinks = <<>>, !.linkIdx = 0],
                "crawlHit", s.searchResults[s.idx], "", 0),
           analysis, s.searchResults[s.idx])

\* crawlInternalLinks returned a result to deepScrape
crawlReturns(s, analysis, source) ==
    accept(push([s EXCEPT !.internalLinks = <<>>, !.linkIdx = 0],
                "crawlHit", source, "", 0),
           analysis, source)

RECURSIVE nextLink(_, _)
\* the head of `for (const internalUrl of internalLinks)` from position j
\* on, up to the first await of the iteration, or the return after the loop
nextLink(s, j) ==
    IF j > Len(s.internalLinks)
    THEN crawlReturnsNull(s)
    ELSE LET internalUrl == s.internalLinks[j]
         IN  IF internalUrl \in s.visited
             THEN nextLink(s, j + 1)
             ELSE fetchHtmlRequestsCall(
                      [s EXCEPT !.visited = @ \cup {internalUrl},
                                !.trials = Append(@, internalUrl),
                                !.linkIdx = j],
                      internalUrl, "linkFast")

\* crawlInternalLinks(baseUrl, baseHtml, ...) up to its first await
crawlInternalLinks(s, baseUrl, baseHtml) ==
    IF MAX_CRAWL_DEPTH = 0 THEN crawlReturnsNull(s)
    ELSE LET s1 == push(s, "crawling", baseUrl, "", 0)
             scan == scanAnchors(baseHtml.els, 1, baseUrl, s.visited, <<>>)
         IN  IF scan.err
             THEN crawlReturnsNull(push(s1, "crawlError", NULL, "", 0))
             ELSE nextLink(
                      [push(s1, "linksFound", NULL, "", Len(scan.links))
                          EXCEPT !.internalLinks = scan.links],
                      1)

\* afterFast that goes on to the rendered fetch whatever the analyzer says
\* of the direct-fetch markup
afterFast_keepLooking(s, url, html) ==
    fetchHtmlWithScraperCall([s EXCEPT !.fastHtml = html], url, "scrape", "scrape")

\* deepScrape from `const fastHtml = await ...` to the next await
afterFast(s, url, html) ==
    LET s1 == [s EXCEPT !.fastHtml = html]
        analysis == analyzeHtmlForQuery(html, url, s.query)
    IN  IF truthy(html) /\ analysis # NULL
        THEN accept(push(s1, "fastHit", url, "", 0), analysis, url)
        ELSE fetchHtmlWithScraperCall(s1, url, "scrape", "scrape")

\* afterScrape with the embedded-state inspection left out: the link crawl
\* follows the rendered fetch
afterScrape_noRuntime(s, url, html) ==
    LET s1 == [s EXCEPT !.scrapedHtml = html]
        analysis == analyzeHtmlForQuery(html, url, s.query)
        sourceHtml == IF truthy(html) THEN html ELSE s.fastHtml
    IN  IF truthy(html) /\ analysis # NULL
        THEN accept(push(s1, "scrapeHit", url, "", 0), analysis, url)
        ELSE IF truthy(sourceHtml) /\ MAX_CRAWL_DEPTH > 0
             THEN crawlInternalLinks(s1, url, sourceHtml)
             ELSE nextCandidate(s1, s1.idx + 1)

\* deepScrape from `const scrapedHtml = await ...` to the next await
afterScrape(s, url, html) ==
    LET s1 == [s EXCEPT !.scrapedHtml = html]
        analysis == analyzeHtmlForQuery(html, url, s.query)
    IN  IF truthy(html) /\ analysis # NULL
        THEN accept(push(s1, "scrapeHit", url, "", 0), analysis, url)
        ELSE extractFromJsRuntimeCall(s1, url, "runtime")

\* afterRuntime that crawls whatever the two fetches returned, the empty
\* page when they returned nothing
afterRuntime_alwaysCrawls(s, url, runtimeResult) ==
    LET sourceHtml == IF truthy(s.scrapedHtml) THEN s.scrapedHtml
                      ELSE IF truthy(s.fastHtml) THEN s.fastHtml
                      ELSE EMPTY_HTML
    IN  IF runtimeResult # NULL
        THEN accept(push(s, "runtimeHit", url, "", 0), runtimeResult, url)
        ELSE crawlInternalLinks(s, url, sourceHtml)

\* deepScrape from `const runtimeResult = await ...` to the next await
afterRuntime(s, url, runtimeResult) ==
    LET sourceHtml == IF truthy(s.scrapedHtml) THEN s.scrapedHtml ELSE s.fastHtml
    IN  IF runtimeResult # NULL
        THEN accept(push(s, "runtimeHit", url, "", 0), runtimeResult, url)
        ELSE IF truthy(sourceHtml) /\ MAX_CRAWL_DEPTH > 0
             THEN crawlInternalLinks(s, url, sourceHtml)
             ELSE nextCandidate(s, s.idx + 1)

\* crawlInternalLinks from `const html = await ...` to the next await
afterLinkFast(s, internalUrl, html) ==
    LET analysis == analyzeHtmlForQuery(html, internalUrl, s.query)
    IN  IF truthy(html) /\ analysis # NULL
        THEN crawlReturns(push(s, "linkHit", internalUrl, "", 0),
                          analysis, internalUrl)
        ELSE fetchHtmlWithScraperCall(s, internalUrl, "scrape", "linkScrape")

\* afterLinkScrape that crawls the links of the internal link's markup when
\* the analyzer rejects it
afterLinkScrape_crawlsDeeper(s, internalUrl, html) ==
    LET analysis == analyzeHtmlForQuery(html, internalUrl, s.query)
    IN  IF truthy(html) /\ analysis # NULL
        THEN crawlReturns(push(s, "linkScrapeHit", internalUrl, "", 0),
                          analysis, internalUrl)
        ELSE IF truthy(html)
             THEN crawlInternalLinks(s, internalUrl, html)
             ELSE extractFromJsRuntimeCall(s, internalUrl, "linkRuntime")

\* crawlInternalLinks from `const scrapedHtml = await ...` to the next await
afterLinkScrape(s, internalUrl, html) ==
    LET analysis == analyzeHtmlForQuery(html, internalUrl, s.query)
    IN  IF truthy(html) /\ analysis # NULL
        THEN crawlReturns(push(s, "linkScrapeHit", internalUrl, "", 0),
                          analysis, internalUrl)
        ELSE extractFromJsRuntimeCall(s, internalUrl, "linkRuntime")

\* afterLinkRuntime that puts the same link on trial again when nothing was
\* found on it
afterLinkRuntime_sameLinkAgain(s, internalUrl, runtimeResult) ==
    IF runtimeResult # NULL
    THEN crawlReturns(push(s, "linkRuntimeHit", internalUrl, "", 0),
                      runtimeResult, internalUrl)
    ELSE fetchHtmlRequestsCall(
             [s EXCEPT !.trials = Append(@, internalUrl)],
             internalUrl, "linkFast")

\* crawlInternalLinks from `const runtimeResult = await ...` to the next await
afterLinkRuntime(s, internalUrl, runtimeResult) ==
    IF runtimeResult # NULL
    THEN crawlReturns(push(s, "linkRuntimeHit", internalUrl, "", 0),
                      runtimeResult, internalUrl)
    ELSE nextLink(s, s.linkIdx + 1)

\* performSearchReturn without `.slice(0, MAX_SEARCH_RESULTS)`
performSearchReturn_noSlice(s, out) ==
    IF out.k = "status"
    THEN [st |-> push(s, "searchFailed", NULL, "status", 0), val |-> <<>>]
    ELSE IF out.k = "network"
    THEN [st |-> push(s, "searchError", NULL, out.k, 0), val |-> <<>>]
    ELSE [st |-> push(s, "found", NULL, "", Len(out.items)), val |-> out.items]

\* performSearch from the response on: the state and the list returned
performSearchReturn(s, out) ==
    IF out.k = "status"
    THEN [st |-> push(s, "searchFailed", NULL, "status", 0), val |-> <<>>]
    ELSE IF out.k = "network"
    THEN [st |-> push(s, "searchError", NULL, out.k, 0), val |-> <<>>]
    ELSE LET results == substring0(out.items, MAX_SEARCH_RESULTS)
         IN  [st |-> push(s, "found", NULL, "", Len(results)), val |-> results]

\* afterSearch without the early return on an empty list
afterSearch_noEarlyReturn(s, results) ==
    nextCandidate([s EXCEPT !.search_results = results,
                            !.searchResults = results], 1)

\* deepScrape from `const searchResults = await ...` to the next await
afterSearch(s, results) ==
    LET s1 == [s EXCEPT !.search_results = results, !.searchResults = results]
    IN  IF Len(results) = 0
        THEN [push(s1, "noResults", NULL, "", 0)
                 EXCEPT !.result = NotFound, !.pc = "done"]
        ELSE nextCandidate(s1, 1)

\* afterAI that gives the success up when the synthesizer gave no answer
afterAI_needsAnswer(s, aiAnswer) ==
    IF aiAnswer = NULL
    THEN [s EXCEPT !.result = NotFound, !.pc = "done"]
    ELSE [s EXCEPT !.result = [found |-> TRUE,
                               snippet |-> s.accepted.snippet,
                               score |-> s.accepted.score,
                               source |-> s.accepted.source,
                               answer |-> aiAnswer],
                   !.pc = "done"]

\* deepScrape from `const aiAnswer = await ...` to its return
afterAI(s, aiAnswer) ==
    [s EXCEPT !.result = [found |-> TRUE,
                          snippet |-> s.accepted.snippet,
                          score |-> s.accepted.score,
                          source |-> s.accepted.source,
                          answer |-> aiAnswer],
              !.pc = "done"]

(***************************************************************************)
(* The entry point.                                                        *)
(***************************************************************************)
\* the value deepScrape returns: the properties of the object literal, and
\* debug, the trace object of the run
outcome(s) ==
    s.result @@ [debug |-> [steps |-> s.steps,
                            search_results |-> s.search_results]]

\* a catch of POST that hands the trace of the aborted run to the caller
internalError_leaksTrace(s) ==
    [s EXCEPT !.response =
                  [status |-> 500,
                   body |-> [error |-> "Internal server error during deep scrape",
                             debug |-> [steps |-> s.steps,
                                        search_results |-> s.search_results]]],
              !.pc = "failed"]

\* the catch of POST
internalError(s) ==
    [s EXCEPT !.response =
                  [status |-> 500,
                   body |-> [error |-> "Internal server error during deep scrape"]],
              !.pc = "failed"]

\* deepScrape and performSearch up to the search request
deepScrapeCall(s) ==
    issue(push(push(s, "start", NULL, "", 0), "searching", NULL, "", 0),
          "search", NULL, "search", NULL, "search")

\* POST up to the first await of the run, or to the response when there is
\* no run
POSTCall(s) ==
    IF s.request.k \in {"unparsable", "null"}
    THEN internalError(s)
    ELSE LET q == IF s.request.k = "object" THEN s.request.query
                  ELSE UNDEFINED
         IN  IF falsy(q) \/ typeOf(q) # "string" \/ Len(trim(q.s)) = 0
             THEN [s EXCEPT !.response =
                               [status |-> 400,
                                body |-> [error |-> "Query is required and must be a non-empty string"]],
                            !.pc = "rejected"]
             ELSE deepScrapeCall([s EXCEPT !.query = trim(q.s)])

\* POST from `const result = await scraper.deepScrape(...)` on, once the
\* run has returned or thrown
POSTReturn(s) ==
    IF s.pc = "done"
    THEN [s EXCEPT !.response = [status |-> 200, body |-> outcome(s)]]
    ELSE IF s.pc = "thrown"
         THEN internalError(s)
         ELSE s

(***************************************************************************)
(* The steps of an invocation: from one await to the next.  Each operator  *)
(* gives the states the invocation can be in after the step, one for each  *)
(* answer of the collaborator.                                             *)
(***************************************************************************)
\* the answers that the bound on injected failures admits
Admitted(s, outs) == {out \in outs : out.k = "ok" \/ s.faults < MaxFaults}

SearchResponses(s) ==
    { LET r == performSearchReturn(answered(s, out), out)
      IN  POSTReturn(afterSearch(r.st, r.val)) : out \in SearchOutcomes }

FastResponses(s) ==
    LET url == s.searchResults[s.idx]
    IN  { LET r == fetchHtmlRequestsReturn(counted(s, out, "fast"), url, out)
          IN  POSTReturn(afterFast(r.st, url, r.val)) :
              out \in Admitted(s, DirectOutcomes(url)) }

ScrapeResponses(s) ==
    LET url == s.searchResults[s.idx]
    IN  { LET r == fetchHtmlWithScraperReturn(counted(s, out, "scrape"), url, out)
          IN  POSTReturn(afterScrape(r.st, url, r.val)) :
              out \in Admitted(s, RenderOutcomes(url)) }

RuntimeResponses(s) ==
    LET url == s.searchResults[s.idx]
    IN  { LET r == extractFromJsRuntimeReturn(counted(s, out, "runtime"), url, out)
          IN  POSTReturn(afterRuntime(r.st, url, r.val)) :
              out \in Admitted(s, RenderOutcomes(url)) }

LinkFastResponses(s) ==
    LET url == s.internalLinks[s.linkIdx]
    IN  { LET r == fetchHtmlRequestsReturn(counted(s, out, "fast"), url, out)
          IN  POSTReturn(afterLinkFast(r.st, url, r.val)) :
              out \in Admitted(s, DirectOutcomes(url)) }

LinkScrapeResponses(s) ==
    LET url == s.internalLinks[s.linkIdx]
    IN  { LET r == fetchHtmlWithScraperReturn(counted(s, out, "scrape"), url, out)
          IN  POSTReturn(afterLinkScrape(r.st, url, r.val)) :
              out \in Admitted(s, RenderOutcomes(url)) }

LinkRuntimeResponses(s) ==
    LET url == s.internalLinks[s.linkIdx]
    IN  { LET r == extractFromJsRuntimeReturn(counted(s, out, "runtime"), url, out)
          IN  POSTReturn(afterLinkRuntime(r.st, url, r.val)) :
              out \in Admitted(s, RenderOutcomes(url)) }

AIResponses(s) ==
    { LET r == generateAIAnswerReturn(answered(s, out), out)
      IN  POSTReturn(afterAI(r.st, r.val)) : out \in AIOutcomes }

(***************************************************************************)
(* One invocation: the request arrives, then one action per await.         *)
(***************************************************************************)
EMPTY_HEAP == [scrapers |-> <<>>, debugs |-> <<>>]

\* the invocation before anything of POST has run, with the DeepScraper and
\* the debug object as their constructors leave them
Fresh(req) ==
    [request |-> req, response |-> NULL, pc |-> "start", query |-> NULL,
     visited |-> {}, steps |-> <<>>, search_results |-> <<>>,
     searchResults |-> <<>>, idx |-> 0, fastHtml |-> NULL,
     scrapedHtml |-> NULL, internalLinks |-> <<>>, linkIdx |-> 0,
     accepted |-> NULL, result |-> NULL, calls |-> <<>>, trials |-> <<>>,
     faults |-> 0]

Init ==
    /\ request \in Requests
    /\ response = NULL
    /\ pc = "start"
    /\ query = NULL
    /\ visited = {}
    /\ steps = <<>>
    /\ search_results = <<>>
    /\ searchResults = <<>>
    /\ idx = 0
    /\ fastHtml = NULL
    /\ scrapedHtml = NULL
    /\ internalLinks = <<>>
    /\ linkIdx = 0
    /\ accepted = NULL
    /\ result = NULL
    /\ calls = <<>>
    /\ trials = <<>>
    /\ faults = 0
    /\ runs = <<>>
    /\ heap = EMPTY_HEAP

\* the request arrives: POST runs up to the search request of the run, or
\* to its response
Start ==
    /\ pc = "start"
    /\ Becomes(POSTCall(Cur))

\* the search collaborator answers
SearchRespond ==
    /\ pc = "search"
    /\ \E t \in SearchResponses(Cur) : Becomes(t)

\* the direct fetch of the candidate answers
FastRespond ==
    /\ pc = "fast"
    /\ \E t \in FastResponses(Cur) : Becomes(t)

\* the rendered fetch of the candidate answers
ScrapeRespond ==
    /\ pc = "scrape"
    /\ \E t \in ScrapeResponses(Cur) : Becomes(t)

\* the rendered fetch of the candidate's embedded-state inspection answers
RuntimeRespond ==
    /\ pc = "runtime"
    /\ \E t \in RuntimeResponses(Cur) : Becomes(t)

\* the direct fetch of an internal link answers
LinkFastRespond ==
    /\ pc = "linkFast"
    /\ \E t \in LinkFastResponses(Cur) : Becomes(t)

\* the rendered fetch of an internal link answers
LinkScrapeRespond ==
    /\ pc = "linkScrape"
    /\ \E t \in LinkScrapeResponses(Cur) : Becomes(t)

\* the rendered fetch of an internal link's embedded-state inspection answers
LinkRuntimeRespond ==
    /\ pc = "linkRuntime"
    /\ \E t \in LinkRuntimeResponses(Cur) : Becomes(t)

\* the synthesizer answers
AIRespond ==
    /\ pc = "ai"
    /\ \E t \in AIResponses(Cur) : Becomes(t)

Next ==
    \/ Start
    \/ SearchRespond
    \/ FastRespond
    \/ ScrapeRespond
    \/ RuntimeRespond
    \/ LinkFastRespond
    \/ LinkScrapeRespond
    \/ LinkRuntimeRespond
    \/ AIRespond

Spec == Init /\ [][Next]_vars


(***************************************************************************)
(* Vocabulary of the properties, read off the two logs.                    *)
(***************************************************************************)
Done == pc = "done"

FailKinds == {"timeout", "network", "status"}

IsFetch(c) == c.svc \in {"direct", "render"}

Strategies == <<"fast", "scrape", "runtime">>

\* the strategy that issued fetch call c got markup back (not null, and not
\* the empty string)
GotMarkup(c) == c.seen \in {"rejected", "accepted"}

\* what the strategy that issued fetch call c made of the answer: an
\* analysis [snippet, score], or NULL
Verdict(c) == c.verdict

\* the answer to fetch call c is an acceptance
Acceptable(c) == IsFetch(c) /\ c.seen = "accepted"

NoAcceptance == \A i \in 1..Len(calls) : ~Acceptable(calls[i])

\* the URLs put on trial by the loop over the search results (the others
\* were put on trial by the loop over the internal links)
TrialedAsCandidate(u) ==
    \E j \in 1..Len(steps) : steps[j].k = "processing" /\ steps[j].u = u

LastStep == steps[Len(steps)]

(***************************************************************************)
(* C1                                                                      *)
(***************************************************************************)
\* C1: within one run no URL is selected for trial more than once: the
\* sequence of URLs put on trial (candidates and internal links alike) has
\* no repetition, and each strategy of the trial sequence (direct fetch,
\* rendered fetch, embedded-state inspection) is started at most once per URL
C1_NoUrlTrialedTwice ==
    /\ \A i, j \in 1..Len(trials) : trials[i] = trials[j] => i = j
    /\ \A i, j \in 1..Len(calls) :
          /\ IsFetch(calls[i])
          /\ calls[i].url = calls[j].url
          /\ calls[i].by = calls[j].by
          => i = j

\* a search candidate that had been put on trial as an internal link of an
\* earlier candidate was passed over, and the run went on to its end
C1_Witness ==
    /\ Done
    /\ \E i \in 1..Len(searchResults) :
          /\ ~TrialedAsCandidate(searchResults[i])
          /\ \E j \in 1..Len(calls) :
                calls[j].svc = "direct" /\ calls[j].url = searchResults[i]

(***************************************************************************)
(* C2                                                                      *)
(***************************************************************************)
\* C2: the run commits to the first acceptance in trial order: an accepted
\* answer of any strategy on any URL is followed by the synthesizer call and
\* by no other call, and the outcome carries the snippet, the score and the
\* URL of that answer
C2_FirstAcceptanceCommits ==
    \A i \in 1..Len(calls) :
        Acceptable(calls[i]) =>
            /\ Len(calls) = i + 1
            /\ calls[i + 1].svc = "ai"
            /\ Done => /\ result.found
                       /\ result.snippet = Verdict(calls[i]).snippet
                       /\ result.score = Verdict(calls[i]).score
                       /\ result.source = calls[i].url

\* the run returned an acceptance while a later candidate was never tried
C2_Witness ==
    /\ Done
    /\ result.found
    /\ \E i \in 1..Len(searchResults) : searchResults[i] \notin visited

(***************************************************************************)
(* C3                                                                      *)
(***************************************************************************)
\* the strategies tried on u so far, in the order of their calls
StrategiesOn(u) ==
    LET on(c) == IsFetch(c) /\ c.url = u
        cs == SelectSeq(calls, on)
    IN  [i \in 1..Len(cs) |-> cs[i].by]

\* the strategies tried on u are the first ones of the fixed order
InFixedOrder(u) ==
    LET tried == StrategiesOn(u)
    IN  /\ Len(tried) <= Len(Strategies)
        /\ tried = SubSeq(Strategies, 1, Len(tried))

\* every call but the last is answered, and what follows an acceptance is the
\* synthesizer call only
OneAfterTheOther ==
    \A i \in 1..(Len(calls) - 1) :
        /\ calls[i].out # "pending"
        /\ Acceptable(calls[i]) => calls[i + 1].svc = "ai"

\* the link crawl of u starts only after the embedded-state inspection of u
\* ended without acceptance
CrawlComesLast ==
    \A j \in 1..Len(steps) :
        steps[j].k = "crawling" =>
            \E i \in 1..Len(calls) :
                /\ calls[i].url = steps[j].u
                /\ calls[i].by = "runtime"
                /\ calls[i].out # "pending"
                /\ ~Acceptable(calls[i])

\* C3 (as stated): for every trialed URL the strategies are attempted in the
\* order direct fetch, rendered fetch, embedded-state inspection, then link
\* crawl, each after the previous one ended without acceptance, and the
\* rendered fetch is issued for a URL only when its direct fetch failed or
\* the analyzer rejected its direct-fetch markup
C3_RenderOnlyAfterFailureOrRejection ==
    /\ \A i \in 1..Len(calls) : IsFetch(calls[i]) => InFixedOrder(calls[i].url)
    /\ OneAfterTheOther
    /\ CrawlComesLast
    /\ \A i \in 1..Len(calls) :
          calls[i].svc = "render" =>
              \E j \in 1..(i - 1) :
                  /\ calls[j].svc = "direct"
                  /\ calls[j].url = calls[i].url
                  /\ \/ calls[j].out \in FailKinds
                     \/ calls[j].seen = "rejected"

\* C3 (amended): as C3, with the rendered fetch issued for a URL only when
\* its direct fetch failed, answered with an empty body, or the analyzer
\* rejected its direct-fetch markup
C3_StrategyOrder ==
    /\ \A i \in 1..Len(calls) : IsFetch(calls[i]) => InFixedOrder(calls[i].url)
    /\ OneAfterTheOther
    /\ CrawlComesLast
    /\ \A i \in 1..Len(calls) :
          calls[i].svc = "render" =>
              \E j \in 1..(i - 1) :
                  /\ calls[j].svc = "direct"
                  /\ calls[j].url = calls[i].url
                  /\ \/ calls[j].out \in FailKinds
                     \/ calls[j].out = "ok" /\ calls[j].seen = "empty"
                     \/ calls[j].seen = "rejected"

\* a candidate went through all three strategies and its link crawl put an
\* internal link on trial, which went through all three strategies too
C3_Witness ==
    \E i \in 1..Len(trials) :
        /\ ~TrialedAsCandidate(trials[i])
        /\ StrategiesOn(trials[i]) = Strategies
        /\ \E u \in URLs :
              /\ TrialedAsCandidate(u)
              /\ StrategiesOn(u) = Strategies


(***************************************************************************)
(* C4                                                                      *)
(***************************************************************************)
\* the search call was answered
Searched == Len(calls) >= 1 /\ calls[1].out # "pending"

\* C4: if the search yields zero candidates (an empty list, a response
\* without items, a non-success response or a thrown error), the run ends
\* at once with found=false, score 0, source null and a last trace step
\* noting zero results, and the search call is the only call of the run
C4_ZeroCandidatesEndTheRun ==
    (Searched /\ Len(searchResults) = 0) =>
        /\ Done
        /\ result.found = FALSE
        /\ result.score = Score(0, 1)
        /\ result.source = NULL
        /\ LastStep.k = "noResults"
        /\ Len(calls) = 1
        /\ calls[1].svc = "search"

\* the search request threw, and the run is over
C4_Witness ==
    /\ Done
    /\ calls[1].out = "network"
    /\ Len(searchResults) = 0

(***************************************************************************)
(* C5                                                                      *)
(***************************************************************************)
\* C5: when the candidate list is not empty and no strategy on any candidate
\* or internal link yields an acceptance, the run ends with found=false, an
\* empty snippet, score 0 and source null, and the last step of the trace
\* is the 'no relevant content found' step
C5_ExhaustedMeansNotFound ==
    (Done /\ Len(searchResults) > 0 /\ NoAcceptance) =>
        /\ result.found = FALSE
        /\ result.snippet = <<>>
        /\ result.score = Score(0, 1)
        /\ result.source = NULL
        /\ LastStep.k = "notFound"

\* two candidates and an internal link were tried to the end, in vain
C5_Witness ==
    /\ Done
    /\ NoAcceptance
    /\ Len(trials) >= 3

(***************************************************************************)
(* C6                                                                      *)
(***************************************************************************)
\* the direct fetch of candidate u returned markup the analyzer rejected,
\* and the rendered fetch of u then returned markup the analyzer accepted
RejectedThenAccepted(u) ==
    /\ TrialedAsCandidate(u)
    /\ \E i, j \in 1..Len(calls) :
          /\ i < j
          /\ calls[i].svc = "direct" /\ calls[i].url = u
          /\ calls[i].seen = "rejected"
          /\ calls[j].by = "scrape" /\ calls[j].url = u
          /\ calls[j].seen = "accepted"

\* the trace of u's trial says that its direct-fetch markup was rejected,
\* before it says that the rendered markup was accepted: a step about u
\* after the one that reports the direct fetch and before the one that
\* starts the rendered fetch
RejectionThenAcceptanceTraced(u) ==
    \E i, j, k, m \in 1..Len(steps) :
        /\ i < j /\ j < k /\ k < m
        /\ steps[i].k = "fetched" /\ steps[i].u = u
        /\ steps[j].u = u
        /\ steps[k].k = "scraping" /\ steps[k].u = u
        /\ steps[m].k = "scrapeHit" /\ steps[m].u = u

\* C6: when a candidate's direct fetch returns markup the analyzer rejects
\* and its rendered fetch returns markup the analyzer accepts, the run ends
\* with found=true, that candidate as source, the synthesizer's answer, and
\* a trace with a step for the rejection followed by a step for the
\* acceptance
C6_RejectionAndAcceptanceTraced ==
    \A u \in CandidateURLs :
        (Done /\ RejectedThenAccepted(u)) =>
            /\ result.found
            /\ result.source = u
            /\ result.answer = (IF calls[Len(calls)].out = "ok"
                                THEN ANSWER ELSE NULL)
            /\ RejectionThenAcceptanceTraced(u)

(***************************************************************************)
(* C7                                                                      *)
(***************************************************************************)
IsAI(c) == c.svc = "ai"

\* the positions of the synthesizer calls in the log
AICalls == {i \in 1..Len(calls) : IsAI(calls[i])}

\* C7: the synthesizer is invoked exactly once in a run that ends with
\* found=true, after the acceptance and with the winning snippet, and never
\* in a run that ends with found=false
C7_SynthesizerOncePerSuccess ==
    /\ Done =>
          IF result.found
          THEN /\ AICalls = {Len(calls)}
               /\ Len(calls) >= 2
               /\ Acceptable(calls[Len(calls) - 1])
               /\ calls[Len(calls)].ctx = [text |-> result.snippet]
               /\ calls[Len(calls)].ctx = [text |-> Verdict(calls[Len(calls) - 1]).snippet]
          ELSE AICalls = {}
    /\ ~Done => AICalls \subseteq {Len(calls)}

\* a run ended with found=true on content of an internal link
C7_Witness ==
    /\ Done
    /\ result.found
    /\ ~TrialedAsCandidate(result.source)

(***************************************************************************)
(* C8                                                                      *)
(***************************************************************************)
\* C8: a synthesizer failure (a non-success response, a thrown error, a
\* response without choices, an empty answer) never changes the success
\* result: the run returns found=true with the accepted snippet, score and
\* source, and answer=null
C8_SynthesizerFailureKeepsResult ==
    (Done /\ Len(calls) >= 2 /\ IsAI(calls[Len(calls)])
          /\ calls[Len(calls)].out # "ok") =>
        LET won == calls[Len(calls) - 1]
        IN  /\ result.found
            /\ result.snippet = Verdict(won).snippet
            /\ result.score = Verdict(won).score
            /\ result.source = won.url
            /\ result.answer = NULL

\* the synthesizer answered with a non-success status after an acceptance
C8_Witness ==
    /\ Done
    /\ Len(calls) >= 2
    /\ IsAI(calls[Len(calls)])
    /\ calls[Len(calls)].out = "status"

(***************************************************************************)
(* C9                                                                      *)
(***************************************************************************)
\* the URLs of the 'processing' steps, in trace order
RECURSIVE ProcessedIn(_)
ProcessedIn(ss) ==
    IF ss = <<>> THEN <<>>
    ELSE IF Head(ss).k = "processing"
         THEN <<Head(ss).u>> \o ProcessedIn(Tail(ss))
         ELSE ProcessedIn(Tail(ss))

\* the candidates from position i on that the loop has to put on trial,
\* given the set V of URLs already on trial when it reaches them: each
\* candidate not in V, and V grows by the candidate
RECURSIVE DueFrom(_, _)
DueFrom(i, V) ==
    IF i > Len(searchResults) THEN <<>>
    ELSE IF searchResults[i] \in V THEN DueFrom(i + 1, V)
    ELSE <<searchResults[i]>> \o DueFrom(i + 1, V \cup {searchResults[i]})

\* the URLs put on trial as internal links
LinkTrials == {trials[i] : i \in 1..Len(trials)} \ 
              {u \in URLs : TrialedAsCandidate(u)}

FailureTraced(c) ==
    \E j \in 1..Len(steps) :
        /\ steps[j].u = c.url
        /\ steps[j].k \in (IF c.svc = "direct" THEN {"fetchFailed"}
                           ELSE {"scrapeFailed", "scrapeError"})

\* C10: every failing strategy call returns null, propagates no exception
\* and appends a trace entry describing the failure; for the direct fetch
\* for each kind of failure: timeout, network error, non-2xx response
C10_EveryFailureTraced ==
    \A i \in 1..Len(calls) :
        (IsFetch(calls[i]) /\ calls[i].out \in FailKinds) =>
            /\ calls[i].seen = "none"
            /\ FailureTraced(calls[i])

(***************************************************************************)
(* C11                                                                     *)
(***************************************************************************)
\* the request has no query, or one that is not a string, or one that is
\* empty once trimmed
NoUsableQuery(req) ==
    \/ req.k # "object"
    \/ typeOf(req.query) # "string"
    \/ trim(req.query.s) = <<>>

\* POST has run on the request
Received == pc # "start"

\* C11: a request whose query is missing, not a string, or empty after
\* trimming is rejected with a client error before the state machine
\* starts: no run is created and no search, fetch, render or synthesizer
\* call is made
C11_BadQueryRejected ==
    (Received /\ NoUsableQuery(request)) =>
        /\ response # NULL
        /\ calls = <<>>
        /\ steps = <<>>
        /\ visited = {}
        /\ result = NULL
        /\ response.status = 400

(***************************************************************************)
(* C12                                                                     *)
(***************************************************************************)
\* C12: a fault raised during a run is caught at the entry point and
\* reported as a generic internal error without partial state: the error
\* response has the fixed message and nothing else, no snippet, source,
\* score or debug trace
C12_FaultGivesGenericError ==
    /\ pc = "failed" =>
          /\ response # NULL
          /\ response.status = 500
          /\ DOMAIN response.body = {"error"}
          /\ response.body.error = "Internal server error during deep scrape"
    /\ (response # NULL /\ response.status = 500) => pc = "failed"

\* the run was aborted after the search, with a trace and a visited URL
C12_Witness ==
    /\ pc = "failed"
    /\ Searched
    /\ Len(steps) >= 3
    /\ visited # {}

(***************************************************************************)
(* C14                                                                     *)
(***************************************************************************)
LinkHitKinds == {"linkHit", "linkScrapeHit", "linkRuntimeHit"}

\* the page whose links the run crawled last
CrawledPage ==
    LET at == {j \in 1..Len(steps) : steps[j].k = "crawling"}
        last == CHOOSE j \in at : \A k \in at : k <= j
    IN  steps[last].u

\* C14: when the acceptance happens during the internal-link crawl of a
\* candidate, the source of the outcome is the internal link whose content
\* was accepted, not the candidate the link was found on
C14_CrawlSourceIsTheLink ==
    \A j \in 1..Len(steps) :
        (Done /\ steps[j].k \in LinkHitKinds) =>
            /\ result.found
            /\ result.source = steps[j].u
            /\ result.source = calls[Len(calls) - 1].url
            /\ result.source # CrawledPage
            /\ ~TrialedAsCandidate(result.source)
            /\ hostname(result.source) = hostname(CrawledPage)
            /\ LastStep.k \in {"aiDone", "aiEmpty", "aiFailed"}
            /\ \E k \in 1..Len(steps) :
                  steps[k].k = "crawlHit" /\ steps[k].u = result.source

\* the rendered markup of a page found by crawling the links of the hub was
\* accepted
C14_Witness ==
    /\ Done
    /\ \E j \in 1..Len(steps) : steps[j].k = "linkScrapeHit"
    /\ CrawledPage = UA
    /\ result.source = UQ

(***************************************************************************)
(* C18                                                                     *)
(***************************************************************************)
\* the position of the first occurrence of u in the candidate list
FirstAt(u) ==
    CHOOSE i \in 1..Len(searchResults) :
        searchResults[i] = u /\ \A j \in 1..(i - 1) : searchResults[j] # u

\* C18: at most 8 candidates are taken from the search collaborator's
\* answer, they are put on trial in the order of the answer, and the same
\* list in the same order is the trace's search_results
C18_CandidatesCappedAndOrdered ==
    Searched =>
        LET items == calls[1].items
            P == ProcessedIn(steps)
        IN  /\ Len(searchResults) <= 8
            /\ Len(searchResults) <= Len(items)
            /\ searchResults = SubSeq(items, 1, Len(searchResults))
            /\ Len(items) <= 8 => searchResults = items
            /\ search_results = searchResults
            /\ \A a \in 1..Len(P) :
                  \E i \in 1..Len(searchResults) : searchResults[i] = P[a]
            /\ \A a, b \in 1..Len(P) :
                  a < b => FirstAt(P[a]) < FirstAt(P[b])

\* the collaborator answered with more items than are taken, and the run
\* ended without reaching the item beyond the cap
C18_Witness ==
    /\ Done
    /\ Len(calls[1].items) > MAX_SEARCH_RESULTS
    /\ Len(searchResults) = MAX_SEARCH_RESULTS
    /\ ~result.found

(***************************************************************************)
(* C19                                                                     *)
(***************************************************************************)
\* C19: every outcome a run returns is a record with the fields found,
\* snippet, score, source, answer and debug; when found is false, snippet is
\* empty, score is 0.0, source is null and answer is null; when found is
\* true, source is a URL of the run's VisitedSet
C19_OutcomeWellFormed ==
    (response # NULL /\ response.status = 200) =>
        LET o == response.body
        IN  /\ DOMAIN o = {"found", "snippet", "score", "source", "answer",
                           "debug"}
            /\ ~o.found => /\ o.snippet = <<>>
                           /\ o.score = Score(0, 1)
                           /\ o.source = NULL
                           /\ o.answer = NULL
            /\ o.found => o.source \in visited

(***************************************************************************)
(* C20                                                                     *)
(***************************************************************************)
\* C20: for a URL whose rendered fetch returned markup, the embedded-state
\* inspection reuses that markup: the render collaborator is invoked at most
\* once for that URL in the run
C20_RenderAtMostOncePerUrl ==
    \A i, j \in 1..Len(calls) :
        ( /\ calls[i].by = "scrape"
          /\ GotMarkup(calls[i])
          /\ calls[j].svc = "render"
          /\ calls[j].url = calls[i].url )
        => j = i

(***************************************************************************)
(* Link discovery on its own: the scan of crawlInternalLinks applied to a  *)
(* base URL, a page and a VisitedSet.                                      *)
(***************************************************************************)
\* the state with the values of the record s
Is(s) ==
    /\ request = s.request
    /\ response = s.response
    /\ pc = s.pc
    /\ query = s.query
    /\ visited = s.visited
    /\ steps = s.steps
    /\ search_results = s.search_results
    /\ searchResults = s.searchResults
    /\ idx = s.idx
    /\ fastHtml = s.fastHtml
    /\ scrapedHtml = s.scrapedHtml
    /\ internalLinks = s.internalLinks
    /\ linkIdx = s.linkIdx
    /\ accepted = s.accepted
    /\ result = s.result
    /\ calls = s.calls
    /\ trials = s.trials
    /\ faults = s.faults

NO_REQUEST == [k |-> "none"]

\* a page of the site that is named by no other anchor
UM == Url("a", "/m")

\* anchors of every kind: to pages of host a, to the front page of host a,
\* to host b (absolute and '//'-prefixed), a relative path, two hrefs that
\* do not parse
AnchorKinds ==
    {Rel("/q"), Rel("/"), Abs(UE), Abs(UB),
     A([k |-> "netrel", url |-> UB]),
     A([k |-> "other", url |-> UM]),
     A([k |-> "badabs"]), A([k |-> "badrel"])}

ScanPages ==
    {[els |-> head \o Fill(n) \o tail] :
        head \in SeqsUpTo(AnchorKinds, MaxPrefix),
        n \in 0..MaxFill,
        tail \in {<<>>, <<A([k |-> "badrel"])>>, <<Rel("/e")>>}}

ScanBases == {UA, UB}

ScanVisited(base) == {{}, {base}, {base, UQ, Url(base.host, "/1")}}

InitLinks ==
    \E base \in ScanBases, page \in ScanPages :
        \E V \in ScanVisited(base) :
            Is([Fresh(NO_REQUEST) EXCEPT !.pc = "links",
                                         !.searchResults = <<base>>,
                                         !.idx = 1,
                                         !.visited = V,
                                         !.scrapedHtml = page])
            /\ runs = <<>>
            /\ heap = EMPTY_HEAP

\* crawlInternalLinks from `new URL(baseUrl)` to the end of the scan
ScanLinks ==
    /\ pc = "links"
    /\ LET scan == scanAnchors(scrapedHtml.els, 1, searchResults[idx],
                               visited, <<>>)
       IN  Becomes([Cur EXCEPT !.internalLinks =
                                   IF scan.err THEN <<>> ELSE scan.links,
                               !.pc = IF scan.err THEN "scanError"
                                      ELSE "scanned"])

NextLinks == ScanLinks

SpecLinks == InitLinks /\ [][NextLinks]_vars

(***************************************************************************)
(* C13                                                                     *)
(***************************************************************************)
\* what the href h of a page at base resolves to
Target(h, base) ==
    IF h.k = "rel" THEN Url(base.host, h.path) ELSE h.url

\* the anchors of the page whose href is '/'-prefixed or starts with http,
\* and parses
Followable(els) ==
    {j \in 1..Len(els) :
        els[j].t = "a" /\ els[j].href.k \in {"rel", "netrel", "abs"}}

\* C13: for every base URL, markup and VisitedSet, link discovery yields at
\* most 6 links, each of the host of the base URL and not in the VisitedSet
\* when discovered; an href that is neither '/'-prefixed nor http(s) is
\* never included
C13_LinkDiscoveryBounded ==
    pc = "scanned" =>
        LET base == searchResults[idx]
            els == scrapedHtml.els
        IN  /\ Len(internalLinks) <= 6
            /\ \A i \in 1..Len(internalLinks) :
                  /\ hostname(internalLinks[i]) = hostname(base)
                  /\ internalLinks[i] \notin visited
                  /\ \E j \in Followable(els) :
                        Target(els[j].href, base) = internalLinks[i]

\* six links were taken, and a seventh of the same site, not visited, was
\* left on the page
C13_Witness ==
    /\ pc = "scanned"
    /\ Len(internalLinks) = MAX_INTERNAL_LINKS
    /\ \E j \in Followable(scrapedHtml.els) :
          LET u == Target(scrapedHtml.els[j].href, searchResults[idx])
          IN  /\ hostname(u) = hostname(searchResults[idx])
              /\ u \notin visited
              /\ \A i \in 1..Len(internalLinks) : internalLinks[i] # u

(***************************************************************************)
(* The analyzer on its own: analyzeHtmlForQuery applied to a page and a    *)
(* query.                                                                  *)
(***************************************************************************)
W_UP == <<"u", "p">>
W_AAPL == <<"a", "a", "p", "l">>
W_ZZ == <<"z", "z">>

RECURSIVE Join(_)
\* words.join(' ')
Join(words) ==
    IF words = <<>> THEN <<>>
    ELSE IF Len(words) = 1 THEN words[1]
    ELSE words[1] \o <<" ">> \o Join(Tail(words))

\* a query of h words that the stock page has (by turns "up" and "aapl")
\* followed by m words that it has not
WordsQuery(h, m) ==
    Join([i \in 1..(h + m) |->
             IF i > h THEN W_ZZ ELSE IF i % 2 = 1 THEN W_UP ELSE W_AAPL])

\* queries without a word of two characters: "?", "a ?", ""
NoWordQueries == {Q_PUNCT, <<"a", " ", "?">>, <<>>}

AnalyzerQueries ==
    {WordsQuery(h, m) : h \in 0..MaxTokens, m \in 0..MaxTokens}
    \cup NoWordQueries \cup {Q_STOCK}

\* " aapl  up <a> 190 ": white space to collapse, a tag in the text
StockPage ==
    [els |-> << Text(<<" ">> \o W_AAPL \o <<" ", " ">> \o W_UP \o <<" ">>),
                Rel("/q"),
                Text(<<" ">> \o V_NUM \o <<" ">>) >>]

\* a page whose visible text has n characters before white space is
\* normalised: words of four letters
LongPage(n) ==
    [els |-> << Text([i \in 1..n |-> IF i % 5 = 0 THEN " " ELSE "x"]) >>]

ShortPages ==
    {EMPTY_HTML, StockPage, [els |-> <<Text(T_MISS)>>],
     [els |-> <<[t |-> "ld", json |-> J_HIT]>>]}

LongPages == {LongPage(SNIPPET_CAP - 1 + k) : k \in 0..MaxPad}

\* the short pages with every query, the long ones with the queries of at
\* most two words
AnalyzerInputs ==
    {[q |-> q, page |-> page] : q \in AnalyzerQueries, page \in ShortPages}
    \cup {[q |-> q, page |-> page] :
             q \in NoWordQueries \cup {Q_STOCK, W_ZZ}, page \in LongPages}

InitAnalyzer ==
    \E in \in AnalyzerInputs :
        /\ Len(matchWords(toLowerCase(in.q), 1, <<>>, <<>>)) <= MaxTokens
        /\ Is([Fresh(NO_REQUEST) EXCEPT !.pc = "analyze",
                                        !.query = in.q,
                                        !.scrapedHtml = in.page])
        /\ runs = <<>>
        /\ heap = EMPTY_HEAP

\* analyzeHtmlForQuery(html, url, query)
Analyze ==
    /\ pc = "analyze"
    /\ Becomes([Cur EXCEPT !.accepted =
                               analyzeHtmlForQuery(scrapedHtml, NULL, query),
                           !.pc = "analyzed"])

NextAnalyzer == Analyze

SpecAnalyzer == InitAnalyzer /\ [][NextAnalyzer]_vars

\* an invocation of the entry point, or an application of the analyzer
InitScores == Init \/ InitAnalyzer

NextScores == Next \/ Analyze

SpecScores == InitScores /\ [][NextScores]_vars

\* the words of the query, as the analyzer counts them
QueryTokens == matchWords(toLowerCase(query), 1, <<>>, <<>>)

\* the visible text of the page, white space normalised
NormalizedText == normalizeSpace(visibleText(scrapedHtml.els, <<>>))

\* how many of the query's words occur in the text
Matched ==
    Cardinality({i \in 1..Len(QueryTokens) :
                    includes(toLowerCase(NormalizedText), QueryTokens[i])})

\* 0 <= x <= 1
InUnit(x) == x.den > 0 /\ 0 <= x.num /\ x.num <= x.den

(***************************************************************************)
(* C15                                                                     *)
(***************************************************************************)
\* C15: for every markup and query a result of the analyzer has a score
\* between 0 and 1, and the analyzer returns null whenever the score it
\* computes is below 0.1, that is whenever 10 x matched words <= words of
\* the query; every score of an outcome is between 0 and 1
C15_ScoreWithinBounds ==
    /\ pc = "analyzed" =>
          /\ accepted # NULL => InUnit(accepted.score)
          /\ (Len(QueryTokens) >= 1 /\ 10 * Matched <= Len(QueryTokens))
                => accepted = NULL
    /\ \A i \in 1..Len(calls) :
          calls[i].verdict # NULL => InUnit(calls[i].verdict.score)
    /\ (response # NULL /\ response.status = 200) =>
          InUnit(response.body.score)

\* one of the ten words of the query is on the page, and the page was
\* rejected
C15_Witness ==
    /\ pc = "analyzed"
    /\ Matched = 1
    /\ Len(QueryTokens) = 10
    /\ accepted = NULL

(***************************************************************************)
(* C16                                                                     *)
(***************************************************************************)
\* C16: for every query without a token of two characters or more and
\* every non-empty markup, the analyzer returns score 1.0 and a snippet of
\* at most 1500 characters that is a prefix of the normalised visible text
C16_NoTokensAcceptsAll ==
    (pc = "analyzed" /\ QueryTokens = <<>> /\ scrapedHtml # EMPTY_HTML) =>
        /\ accepted # NULL
        /\ accepted.score = Score(1, 1)
        /\ Len(accepted.snippet) <= 1500
        /\ Len(accepted.snippet) <= Len(NormalizedText)
        /\ accepted.snippet = SubSeq(NormalizedText, 1, Len(accepted.snippet))

\* a text of more than 1500 characters was cut to a snippet of 1500
C16_Witness ==
    /\ pc = "analyzed"
    /\ QueryTokens = <<>>
    /\ Len(NormalizedText) > SNIPPET_CAP
    /\ Len(accepted.snippet) = SNIPPET_CAP

(***************************************************************************)
(* Two invocations of the entry point that overlap.  Each is suspended at  *)
(* an await while the other runs; the objects they create live on a heap:  *)
(* the DeepScraper instances (each with its visited set) and the debug     *)
(* objects (each with its steps and search_results).  An invocation holds  *)
(* the references self and dbg; its state st is read through them before   *)
(* it takes a step and written through them after.                         *)
(***************************************************************************)
\* one DeepScraper for all invocations: created by the first, handed to the
\* others as it is
allocScraper_shared(h) ==
    IF h.scrapers # <<>>
    THEN [id |-> 1, heap |-> h]
    ELSE [id |-> 1, heap |-> [h EXCEPT !.scrapers = <<[visited |-> {}]>>]]

\* `new DeepScraper()`: a new instance, its visited set empty
allocScraper(h) ==
    [id |-> Len(h.scrapers) + 1,
     heap |-> [h EXCEPT !.scrapers = Append(@, [visited |-> {}])]]

\* `const debug = { steps: [], search_results: [] }`: a new object
allocDebug(h) ==
    [id |-> Len(h.debugs) + 1,
     heap |-> [h EXCEPT !.debugs =
                            Append(@, [steps |-> <<>>, search_results |-> <<>>])]]

\* the state of invocation r, its objects read from the heap h
View(r, h) ==
    IF r.self = 0 THEN r.st
    ELSE [r.st EXCEPT !.visited = h.scrapers[r.self].visited,
                      !.steps = h.debugs[r.dbg].steps,
                      !.search_results = h.debugs[r.dbg].search_results]

\* the heap after an invocation with the references self and dbg reached
\* state t
Store(h, self, dbg, t) ==
    [h EXCEPT !.scrapers[self].visited = t.visited,
              !.debugs[dbg] = [steps |-> t.steps,
                               search_results |-> t.search_results]]

\* the states an invocation suspended in state s can be in after its next
\* step
Succ(s) ==
    CASE s.pc = "search" -> SearchResponses(s)
      [] s.pc = "fast" -> FastResponses(s)
      [] s.pc = "scrape" -> ScrapeResponses(s)
      [] s.pc = "runtime" -> RuntimeResponses(s)
      [] s.pc = "linkFast" -> LinkFastResponses(s)
      [] s.pc = "linkScrape" -> LinkScrapeResponses(s)
      [] s.pc = "linkRuntime" -> LinkRuntimeResponses(s)
      [] s.pc = "ai" -> AIResponses(s)
      [] OTHER -> {}

\* the lists the search collaborator answers with while two invocations
\* overlap
PairItems == {<<>>, <<UQ>>, <<UD>>, <<UD, UY>>, <<UQ, UD>>, <<UW>>}

\* every collaborator has answered the invocation, and none with a failure
Quiet(t) ==
    /\ t.faults = 0
    /\ \A i \in 1..Len(t.calls) :
          /\ t.calls[i].out \in {"pending", "ok"}
          /\ t.calls[i].items \in PairItems

PairRequests ==
    {[k |-> "object", query |-> Str(Q_STOCK)],
     [k |-> "object", query |-> Str(Q_PUNCT)],
     [k |-> "object", query |-> Str(<<>>)]}

InitPair ==
    /\ Is([Fresh(NO_REQUEST) EXCEPT !.pc = "idle"])
    /\ \E r1, r2 \in PairRequests :
          runs = << [st |-> Fresh(r1), self |-> 0, dbg |-> 0, own |-> <<>>],
                    [st |-> Fresh(r2), self |-> 0, dbg |-> 0, own |-> <<>>] >>
    /\ heap = EMPTY_HEAP

\* the steps that t has and v had not: those the step from v to t pushed
Pushed(v, t) == SubSeq(t.steps, Len(v.steps) + 1, Len(t.steps))

\* request i arrives: POST creates the debug object and the DeepScraper of
\* the invocation and runs up to the search request of the run, or to its
\* response when the request is refused
PairStart(i) ==
    /\ runs[i].st.pc = "start"
    /\ LET d == allocDebug(heap)
           sc == allocScraper(d.heap)
           v == View([runs[i] EXCEPT !.self = sc.id, !.dbg = d.id], sc.heap)
           t == POSTCall(v)
       IN  IF t.pc = "search"
           THEN /\ runs' = [runs EXCEPT ![i] = [st |-> t, self |-> sc.id,
                                                dbg |-> d.id,
                                                own |-> Pushed(v, t)]]
                /\ heap' = Store(sc.heap, sc.id, d.id, t)
           ELSE /\ runs' = [runs EXCEPT ![i].st = t]
                /\ heap' = heap
    /\ UNCHANGED << request, response, pc, query, visited, steps,
                    search_results, searchResults, idx, fastHtml, scrapedHtml,
                    internalLinks, linkIdx, accepted, result, calls, trials,
                    faults >>

\* a collaborator answers invocation i, which runs up to its next await or
\* to its response
PairStep(i) ==
    /\ LET r == runs[i]
           v == View(r, heap)
       IN  \E t \in Succ(v) :
              /\ Quiet(t)
              /\ runs' = [runs EXCEPT ![i].st = t,
                                      ![i].own = @ \o Pushed(v, t)]
              /\ heap' = Store(heap, r.self, r.dbg, t)
    /\ UNCHANGED << request, response, pc, query, visited, steps,
                    search_results, searchResults, idx, fastHtml, scrapedHtml,
                    internalLinks, linkIdx, accepted, result, calls, trials,
                    faults >>

NextPair == \E i \in 1..2 : PairStart(i) \/ PairStep(i)

SpecPair == InitPair /\ [][NextPair]_vars

(***************************************************************************)
(* C17                                                                     *)
(***************************************************************************)
\* invocation i has created its run
Running(i) == runs[i].self # 0

\* the URLs invocation i put on trial itself
OwnTrials(i) == {runs[i].st.trials[k] : k \in 1..Len(runs[i].st.trials)}

\* C17: two runs that execute concurrently share no state: each has its own
\* VisitedSet, which holds the URLs that run put on trial and no other, so
\* that a URL visited in one run is still put on trial in the other; and
\* each has its own DebugTrace, which holds the steps that run appended and
\* no other
C17_RunsShareNoState ==
    /\ (Running(1) /\ Running(2)) =>
          /\ runs[1].self # runs[2].self
          /\ runs[1].dbg # runs[2].dbg
    /\ \A i \in 1..2 :
          Running(i) =>
              LET v == View(runs[i], heap)
              IN  /\ v.visited = OwnTrials(i)
                  /\ v.steps = runs[i].own
                  /\ v.search_results = v.searchResults
                  /\ (v.pc = "done" /\ ~v.result.found) =>
                        \A k \in 1..Len(v.searchResults) :
                            v.searchResults[k] \in OwnTrials(i)

\* the second invocation has returned, after putting on trial a URL that
\* the first, which began before it and still waits for an answer, had put
\* on trial already
C17_Witness ==
    /\ runs[1].self = 1
    /\ runs[2].self = 2
    /\ runs[1].st.pc = "runtime"
    /\ runs[2].st.pc = "done"
    /\ UD \in OwnTrials(1)
    /\ UD \in OwnTrials(2)
    /\ Len(heap.debugs[runs[2].dbg].steps) > 0

(***************************************************************************)
(* C21                                                                     *)
(***************************************************************************)
\* C21: a URL enters the VisitedSet when it is selected for trial, before a
\* fetch or render call for it is issued: every URL put on trial, and the
\* URL of every direct, render or embedded-state call, outstanding or
\* answered, is in the VisitedSet; and the VisitedSet only grows
C21_VisitedBeforeAnyCall ==
    /\ [](/\ \A i \in 1..Len(trials) : trials[i] \in visited
          /\ \A i \in 1..Len(calls) :
                 IsFetch(calls[i]) => calls[i].url \in visited)
    /\ [][visited \subseteq visited']_vars

\* the direct fetch of an internal link is outstanding, after the calls for
\* the candidate it was found on were answered
C21_Witness ==
    /\ pc = "linkFast"
    /\ calls[Len(calls)].out = "pending"
    /\ calls[Len(calls)].url \in visited
    /\ calls[Len(calls)].url # searchResults[idx]
    /\ searchResults[idx] \in visited

(***************************************************************************)
(* C22                                                                     *)
(***************************************************************************)
\* the position in the log of the call strategy `by` issued for candidate u,
\* 0 when there is none
CallOf(u, by) ==
    IF \E i \in 1..Len(calls) : calls[i].url = u /\ calls[i].by = by
    THEN CHOOSE i \in 1..Len(calls) : calls[i].url = u /\ calls[i].by = by
    ELSE 0

\* the strategy `by` got markup for u
MarkupFrom(u, by) ==
    \E i \in 1..Len(calls) :
        calls[i].url = u /\ calls[i].by = by /\ GotMarkup(calls[i])

\* the link crawl of u began
Crawled(u) == \E j \in 1..Len(steps) : steps[j].k = "crawling" /\ steps[j].u = u

\* the three strategies were tried on candidate u without acceptance, and
\* neither the direct fetch nor the rendered fetch returned markup
NothingToCrawl(u) ==
    /\ CallOf(u, "runtime") # 0
    /\ calls[CallOf(u, "runtime")].seen \in {"none", "empty", "rejected"}
    /\ ~MarkupFrom(u, "fast")
    /\ ~MarkupFrom(u, "scrape")
    /\ TrialedAsCandidate(u)

\* C22: the link crawl of a candidate runs only if its direct fetch or its
\* rendered fetch returned markup; when both returned nothing no link of the
\* candidate is discovered or put on trial, and the run goes on with the
\* next candidate (or ends, when there is none)
C22_CrawlNeedsMarkup ==
    \A u \in visited \ {UW} :
        /\ Crawled(u) => (MarkupFrom(u, "fast") \/ MarkupFrom(u, "scrape"))
        /\ NothingToCrawl(u) =>
              LET i == CallOf(u, "runtime")
              IN  /\ ~Crawled(u)
                  /\ IF i = Len(calls)
                     THEN pc \in {"done", "failed"} /\ internalLinks = <<>>
                     ELSE /\ calls[i + 1].by = "fast"
                          /\ TrialedAsCandidate(calls[i + 1].url)
                          /\ \E k \in 1..(Len(trials) - 1) :
                                 /\ trials[k] = u
                                 /\ trials[k + 1] = calls[i + 1].url

\* the direct fetch of a candidate returned the empty string and its
\* rendered fetch failed; the embedded-state inspection then got markup and
\* found nothing in it, and the run went on with the next candidate
C22_Witness ==
    /\ NothingToCrawl(UB)
    /\ calls[CallOf(UB, "fast")].seen = "empty"
    /\ calls[CallOf(UB, "scrape")].seen = "none"
    /\ calls[CallOf(UB, "runtime")].seen = "rejected"
    /\ CallOf(UB, "runtime") < Len(calls)
    /\ \E u \in visited : Crawled(u)

(***************************************************************************)
(* C23                                                                     *)
(***************************************************************************)
\* sequence p is a prefix of sequence q
IsPrefix(p, q) == Len(p) <= Len(q) /\ SubSeq(q, 1, Len(p)) = p

\* C23: the steps of the trace are append-only: every step of a run leaves
\* the earlier sequence in place as a prefix of the new one; and every
\* outcome returned, found or not, carries the whole sequence
C23_TraceAppendOnly ==
    /\ [][IsPrefix(steps, steps')]_vars
    /\ []((response # NULL /\ response.status = 200) =>
             /\ Done
             /\ response.body.debug.steps = steps
             /\ response.body.found = result.found)

\* a not-found outcome was returned after a candidate was tried and crawled
C23_Witness ==
    /\ Done
    /\ response # NULL
    /\ ~response.body.found
    /\ Len(response.body.debug.steps) >= 10
    /\ \E u \in visited : Crawled(u)

(***************************************************************************)
(* C24                                                                     *)
(***************************************************************************)
\* the calls that wait for their answer
Outstanding == {i \in 1..Len(calls) : calls[i].out = "pending"}

\* C24: within a run at most one collaborator call is outstanding at any
\* time, the one issued last: a call is issued only when every earlier call
\* was answered, so candidates, strategies and link trials follow one
\* another
C24_OneCallAtATime ==
    /\ Cardinality(Outstanding) <= 1
    /\ Outstanding \subseteq {Len(calls)}
    /\ (Outstanding # {}) <=>
          (pc \in {"search", "fast", "scrape", "runtime", "linkFast",
                   "linkScrape", "linkRuntime", "ai"})

\* the rendered fetch of an internal link is the one outstanding call, after
\* five answered ones
C24_Witness ==
    /\ pc = "linkScrape"
    /\ Len(calls) >= 6
    /\ Outstanding = {Len(calls)}

(***************************************************************************)
(* C25                                                                     *)
(***************************************************************************)
\* how many different words of the query occur in the text
MatchedDistinct ==
    Cardinality({QueryTokens[i] : i \in
                    {k \in 1..Len(QueryTokens) :
                        includes(toLowerCase(NormalizedText), QueryTokens[k])}})

\* C25: for a query with at least one token, the score of the analyzer's
\* result is the number of distinct tokens of the query that occur in the
\* normalised text, divided by (number of tokens of the query + 0.0001): a
\* token that the query repeats counts once in the numerator.  Scores are
\* fractions over n * 10000 + 1, n the number of tokens of the query
C25_ScoreCountsDistinctTokens ==
    (pc = "analyzed" /\ Len(QueryTokens) >= 1 /\ accepted # NULL) =>
        accepted.score =
            Score(MatchedDistinct * SCALE, Len(QueryTokens) * SCALE + 1)

\* what the analyzer computes: every occurrence of a token in the query
\* counts in the numerator
ScoreCountsOccurrences ==
    (pc = "analyzed" /\ Len(QueryTokens) >= 1 /\ accepted # NULL) =>
        accepted.score = Score(Matched * SCALE, Len(QueryTokens) * SCALE + 1)

(***************************************************************************)
(* The embedded-state inspection on its own: extractFromJsRuntime applied  *)
(* to a query and to the answer of the render collaborator.                *)
(***************************************************************************)
\* "zz  up": two words with two spaces between them
Q_GAP == W_ZZ \o <<" ", " ">> \o W_UP

ProbeQueries == {Q_STOCK, Q_PUNCT, W_ZZ, Q_GAP}

\* what the probes look at: ld+json blocks (one that does not parse, one
\* without and one with a word of the stock query), data attributes (a
\* number, a name outside the pattern, a value without digit, an empty
\* value), inline scripts (a state variable with and without a word of the
\* stock query, one whose object does not parse)
ProbeEls ==
    << [t |-> "ld", json |-> NULL],
       [t |-> "ld", json |-> J_MISS],
       [t |-> "ld", json |-> J_HIT],
       [t |-> "attr", name |-> "data-price", v |-> V_NUM],
       [t |-> "attr", name |-> "data-id", v |-> V_NUM],
       [t |-> "attr", name |-> "data-value", v |-> T_MISS],
       [t |-> "attr", name |-> "data-last", v |-> <<>>],
       [t |-> "script", var |-> "window.x", json |-> J_HIT],
       [t |-> "script", var |-> "__NEXT_DATA__", json |-> J_MISS],
       [t |-> "script", var |-> "__INITIAL_STATE__", json |-> NULL] >>

\* the rendered pages: up to MaxProbeEls of these, in any order; ix names
\* the elements of a page by their positions in ProbeEls
ProbeLayouts == SeqsUpTo(1..Len(ProbeEls), MaxProbeEls)

ProbePage(ix) == [els |-> [i \in 1..Len(ix) |-> ProbeEls[ix[i]]]]

\* extractFromJsRuntime(url, query, debug) up to the request to the render
\* collaborator; scrapedHtml is the page the collaborator holds for the URL
InitProbes ==
    \E q \in ProbeQueries, ix \in ProbeLayouts :
        /\ Is(extractFromJsRuntimeCall(
                  [Fresh(NO_REQUEST) EXCEPT !.query = q,
                                            !.searchResults = <<UA>>,
                                            !.idx = 1,
                                            !.scrapedHtml = ProbePage(ix)],
                  UA, "inspect"))
        /\ runs = <<>>
        /\ heap = EMPTY_HEAP

\* the render collaborator answers: extractFromJsRuntime runs to its return
Inspect ==
    /\ pc = "inspect"
    /\ \E out \in {[k |-> "ok", html |-> scrapedHtml],
                   [k |-> "status", html |-> NULL],
                   [k |-> "network", html |-> NULL]} :
          LET r == extractFromJsRuntimeReturn(counted(Cur, out, "runtime"),
                                              searchResults[idx], out)
          IN  Becomes([r.st EXCEPT !.accepted = r.val, !.pc = "inspected"])

NextProbes == Inspect

SpecProbes == InitProbes /\ [][NextProbes]_vars

(***************************************************************************)
(* C26                                                                     *)
(***************************************************************************)
\* the words of the query: what stands between its spaces
ProbeWords ==
    LET pieces == splitSpace(toLowerCase(query), 1, <<>>, <<>>)
    IN  {pieces[i] : i \in {k \in 1..Len(pieces) : pieces[k] # <<>>}}

\* the serialized data contains a word of the query
HasQueryWord(text) == \E w \in ProbeWords : includes(toLowerCase(text), w)

\* the elements of the page each probe stops at
LdHits ==
    {i \in 1..Len(scrapedHtml.els) :
        LET e == scrapedHtml.els[i]
        IN  e.t = "ld" /\ e.json # NULL /\ HasQueryWord(e.json)}

AttrHits ==
    {i \in 1..Len(scrapedHtml.els) :
        LET e == scrapedHtml.els[i]
        IN  /\ e.t = "attr"
            /\ e.name \in DataAttrNames
            /\ e.v # <<>>
            /\ (someWordIn(query, e.v) \/ hasDigit(e.v))}

VarHits ==
    {i \in 1..Len(scrapedHtml.els) :
        LET e == scrapedHtml.els[i]
        IN  e.t = "script" /\ e.var # "" /\ e.json # NULL /\ HasQueryWord(e.json)}

\* the first element of a non-empty set of positions
FirstOf(S) == scrapedHtml.els[CHOOSE i \in S : \A j \in S : i <= j]

\* the rendered fetch of the inspection returned markup
Rendered == calls[Len(calls)].out = "ok" /\ truthy(scrapedHtml)

\* C26: the embedded-state inspection applies its probes in the order
\* JSON-LD, data attributes, inline state variables and returns the first
\* hit, with score 0.9, 0.85 or 0.95; a JSON-LD or inline-state hit is on
\* data whose serialized text contains a word of the query; it returns
\* null when the rendered fetch fails or no probe hits
C26_ProbesInOrder ==
    pc = "inspected" =>
        accepted =
            IF ~Rendered THEN NULL
            ELSE IF LdHits # {}
            THEN [snippet |-> cleanText(FirstOf(LdHits).json, 1200),
                  score |-> Score(9, 10)]
            ELSE IF AttrHits # {}
            THEN [snippet |-> cleanText(FirstOf(AttrHits).v, 400),
                  score |-> Score(85, 100)]
            ELSE IF VarHits # {}
            THEN [snippet |-> cleanText(FirstOf(VarHits).json, 1200),
                  score |-> Score(95, 100)]
            ELSE NULL

\* what the inspection computes: the pieces of the query between single
\* spaces count as its words, the empty piece between two spaces included,
\* which every text contains
ProbesInOrderWithEmptyWord ==
    pc = "inspected" =>
        LET hit(i) ==
                LET e == scrapedHtml.els[i]
                IN  \/ e.t = "ld" /\ e.json # NULL /\ someWordIn(query, e.json)
                    \/ /\ e.t = "script" /\ e.var # "" /\ e.json # NULL
                       /\ someWordIn(query, e.json)
            lds == {i \in 1..Len(scrapedHtml.els) :
                       scrapedHtml.els[i].t = "ld" /\ hit(i)}
            sts == {i \in 1..Len(scrapedHtml.els) :
                       scrapedHtml.els[i].t = "script" /\ hit(i)}
        IN  accepted =
                IF ~Rendered THEN NULL
                ELSE IF lds # {}
                THEN [snippet |-> cleanText(FirstOf(lds).json, 1200),
                      score |-> Score(9, 10)]
                ELSE IF AttrHits # {}
                THEN [snippet |-> cleanText(FirstOf(AttrHits).v, 400),
                      score |-> Score(85, 100)]
                ELSE IF sts # {}
                THEN [snippet |-> cleanText(FirstOf(sts).json, 1200),
                      score |-> Score(95, 100)]
                ELSE NULL

(***************************************************************************)
(* C27                                                                     *)
(***************************************************************************)
\* u is a search candidate of the run
IsCandidate(u) == \E k \in 1..Len(searchResults) : searchResults[k] = u

\* an anchor of `page`, fetched from c, leads to u
OnPage(u, page, c) ==
    \E j \in Followable(page.els) : Target(page.els[j].href, c) = u

\* u is linked from the page of c, as fetched directly or as rendered
LinkedFrom(c, u) ==
    OnPage(u, Web(c).static, c) \/ OnPage(u, Web(c).rendered, c)

Awaits ==
    {"search", "fast", "scrape", "runtime", "linkFast", "linkScrape",
     "linkRuntime", "ai"}

\* where an invocation can be
Positions == Awaits \cup {"start", "done", "failed", "rejected"}

\* the invocation has something to wait for: the request to run, or the
\* answer to the call it issued
Waiting == pc \in Awaits \cup {"start"}

\* the invocation is resumed: it leaves the position it waits at
Resumed == Waiting /\ pc' \in Positions

\* every step of a waiting invocation is one of Resumed
EveryStepResumes == [][Waiting /\ pc' # pc /\ pc' \in Positions]_vars

\* the answers of the search collaborator to this invocation: lists of up
\* to MaxLiveItems items, the two lists with more items than the
\* orchestrator takes, and the failures
LiveSearchOutcomes ==
    {[k |-> "ok", items |-> q] : q \in SeqsUpTo(Links, MaxLiveItems)}
    \cup {[k |-> "ok", items |-> LongItems],
          [k |-> "ok", items |-> WideItems],
          [k |-> "noitems", items |-> <<>>],
          [k |-> "status", items |-> <<>>],
          [k |-> "network", items |-> <<>>]}

LiveSearchResponses(s) ==
    { LET r == performSearchReturn(answered(s, out), out)
      IN  POSTReturn(afterSearch(r.st, r.val)) : out \in LiveSearchOutcomes }

\* the search collaborator answers
LiveSearchRespond ==
    /\ pc = "search"
    /\ \E t \in LiveSearchResponses(Cur) : Becomes(t)

\* the answers of the collaborator that the invocation waits for: there is
\* one at every await, so that a step can be taken wherever Resumed can
Resumable ==
    CASE pc = "search" -> \E t \in LiveSearchResponses(Cur) : TRUE
      [] pc = "fast" -> \E t \in FastResponses(Cur) : TRUE
      [] pc = "scrape" -> \E t \in ScrapeResponses(Cur) : TRUE
      [] pc = "runtime" -> \E t \in RuntimeResponses(Cur) : TRUE
      [] pc = "linkFast" -> \E t \in LinkFastResponses(Cur) : TRUE
      [] pc = "linkScrape" -> \E t \in LinkScrapeResponses(Cur) : TRUE
      [] pc = "linkRuntime" -> \E t \in LinkRuntimeResponses(Cur) : TRUE
      [] pc = "ai" -> \E t \in AIResponses(Cur) : TRUE
      [] OTHER -> pc = "start"

NextLive ==
    \/ Start
    \/ LiveSearchRespond
    \/ FastRespond
    \/ ScrapeRespond
    \/ RuntimeRespond
    \/ LinkFastRespond
    \/ LinkScrapeRespond
    \/ LinkRuntimeRespond
    \/ AIRespond

SpecLive == Init /\ [][NextLive]_vars /\ WF_pc(Resumed)

(***************************************************************************)
(* C28                                                                     *)
(***************************************************************************)
\* the i-th trial is that of a candidate: of a URL that the loop over the
\* search results selected
CandidateTrial(i) == trials[i] = UW \/ TrialedAsCandidate(trials[i])

CandidateTrials == {i \in 1..Len(trials) : CandidateTrial(i)}

\* at most MAX_SEARCH_RESULTS candidates were selected for trial, at most
\* MAX_INTERNAL_LINKS internal links after each (no run of one more link
\* trial without a candidate's among them), 56 URLs in all
WithinBounds ==
    /\ Cardinality(CandidateTrials) <= 8
    /\ \A i \in 1..Len(trials) :
          (i + 6 <= Len(trials)) => \E k \in i..(i + 6) : CandidateTrial(k)
    /\ Len(trials) >= 1 => CandidateTrial(1)
    /\ Len(trials) <= 56

\* the run has begun: its search request is out
Began == pc = "search"

\* the run was aborted by an exception, which the entry point reported
Aborted == pc = "failed" /\ Searched

\* C28 as stated: provided every collaborator call returns or fails in the
\* end, every run reaches DONE(found) or DONE(not-found) in the end, after
\* selecting at most 8 candidates and at most 6 internal links for each
\* (at most 56 URLs in all)
C28_EveryRunReachesDone ==
    /\ Began ~> Done
    /\ []WithinBounds
    /\ [](Waiting => Resumable)
    /\ EveryStepResumes

\* C28, amended: provided every collaborator call returns or fails in the
\* end, every run ends: it reaches DONE(found) or DONE(not-found), or it is
\* aborted by an exception and reported as an internal error; until then it
\* selects at most 8 candidates and at most 6 internal links for each (at
\* most 56 URLs in all)
C28_EveryRunEnds ==
    /\ Began ~> (Done \/ Aborted)
    /\ []WithinBounds
    /\ [](Waiting => Resumable)
    /\ EveryStepResumes

\* a run ended not-found after 8 candidates and, on the first of them, 6
\* internal links were put on trial: the seventh link of that page and the
\* ninth item of the search answer were left out
C28_Witness ==
    /\ Done
    /\ ~result.found
    /\ Cardinality(CandidateTrials) = 8
    /\ Len(trials) = 14
    /\ \A k \in 2..7 : ~CandidateTrial(k)
    /\ Url("f", "/7") \notin visited
    /\ UP \notin visited
    /\ steps[3].n = 8

=============================================================================
